---- MODULE Spec2Model ----
(***************************************************************************)
(* A model of the FactorishWasm simulation core: the generational          *)
(* structure arena (FactorishState::structures), the power wire list and   *)
(* the power networks built from it, save and load, and the fluid flow     *)
(* step of FluidBox::simulate.                                             *)
(*                                                                         *)
(* Arena indices (StructureId::id) are 0-based as in the source; TLA+      *)
(* sequences are 1-based, so slot i is structures[i + 1].                  *)
(***************************************************************************)
EXTENDS Integers, Sequences, FiniteSets, TLC

VARIABLES
    structures,      \* FactorishState::structures : Vec<StructureEntry>
    power_wires,     \* FactorishState::power_wires : Vec<PowerWire>
    power_networks,  \* FactorishState::power_networks : Vec<PowerNetwork>
    player,          \* FactorishState::player.inventory : ItemType -> count
    drop_items,      \* FactorishState::drop_items : Vec<DropItemEntry>
    sim_time,        \* FactorishState::sim_time
    harvested,       \* handles of the structures destroyed since the arena was (re)built
    result,          \* the last call and what it returned
    boxes,           \* the FluidBox components of the fluid flow engine
    flowlog,         \* the flow steps of the last FluidBox::simulate call
    nsteps,          \* number of flow steps applied so far
    boxes0,          \* the fluid boxes as they were at the start
    net_wires,       \* input of build_power_networks when checked as a function
    net_out,         \* its output
    frame,           \* where the running simulate call stands, and the calls it made
    bundle,          \* a StructureBundle on its own, and the last call made on it
    drop_items_index, \* FactorishState::drop_items_index : DropItemIndex
    ecs,             \* the specs World: the Position and OutputFluidBox of each entity
    connections,     \* what FluidBox::list_connections returned for it
    fluid_links,     \* FluidBox::connect_to of the fluid box of each entity
    pole_power,      \* ElectPole::power of an electric pole on its own
    outlets          \* the power_outlet calls made on it: demand, power before, result

vars == <<structures, power_wires, power_networks, player, drop_items, sim_time,
          harvested, result, boxes, flowlog, nsteps, boxes0, net_wires, net_out, frame, bundle,
          drop_items_index, ecs, connections, fluid_links, pole_power, outlets>>

worldVars == <<structures, power_wires, power_networks, player, drop_items,
               sim_time, harvested>>
fluidVars == <<boxes, flowlog, nsteps, boxes0>>
netVars == <<net_wires, net_out>>
frameVars == <<frame>>
bundleVars == <<bundle>>
objectVars == <<drop_items_index>>
ecsVars == <<ecs, connections, fluid_links>>
outletVars == <<pole_power, outlets>>

-----------------------------------------------------------------------------
(* Bounds of the model *)

MaxSlots == 3        \* the arena grows to at most this many slots
MaxHarvests == 2     \* structures harvested since the arena was (re)built
MaxFlowSteps == 4    \* flow steps applied in one behaviour of the fluid engine
MaxWires == 3        \* length of the wire lists given to build_power_networks
MaxTicks == 2        \* simulate is called at most this many times
MaxInputs == 2       \* items a structure bundle accepts in one behaviour
MaxDrops == 4        \* items dropped on the board in one game, the first included
MaxEntities == 3     \* entities of the specs World
MaxPower == 3        \* largest power stored in the electric pole at the start
MaxDemand == 3       \* largest demand of one power_outlet call
MaxOutlets == 3      \* power_outlet calls in one behaviour
MaxHandle == 3       \* largest arena index in those wire lists

(* Program constants *)

SAVE_VERSION == 5
TILE_SIZE_I == 32
DEFAULT_WIRE_REACH == 3
ELECT_POLE_WIRE_REACH == 5
DROP_ITEM_SIZE_I == 8

\* Option<T>: None is the empty tuple, Some(v) the tuple of v
None == <<>>
Some(v) == <<v>>
Unwrap(o) == o[1]

-----------------------------------------------------------------------------
(* Generic helpers on sequences *)

RECURSIVE SeqFilterIdx(_, _, _)
\* the indices i (1-based, ascending) of s with keep[i]
SeqFilterIdx(n, keep, i) ==
    IF i > n THEN <<>>
    ELSE (IF keep[i] THEN <<i>> ELSE <<>>) \o SeqFilterIdx(n, keep, i + 1)

Range(s) == {s[i] : i \in 1..Len(s)}

Min(a, b) == IF a <= b THEN a ELSE b
Max(a, b) == IF a >= b THEN a ELSE b
Abs(a) == IF a < 0 THEN -a ELSE a

-----------------------------------------------------------------------------
(* Positions *)

Pos(x, y) == [x |-> x, y |-> y]

\* The tiles of the board that the cursor visits: they give a west/east pair,
\* a north/south pair, a diagonal pair, and a tile out of the default wire reach.
Tiles == {Pos(0, 0), Pos(1, 0), Pos(0, 1), Pos(4, 0)}

\* Position::distance (Chebyshev)
distance(p, q) == Max(Abs(q.x - p.x), Abs(q.y - p.y))

rel_pos == << <<-1, 0>>, <<0, -1>>, <<1, 0>>, <<0, 1>> >>

\* Position::neighbor_index: the first i (0-based) with self = pos2 + rel_pos[i]
neighbor_index(self, pos2) ==
    LET hits == {i \in 0..3 : self = Pos(pos2.x + rel_pos[i + 1][1], pos2.y + rel_pos[i + 1][2])}
    IN IF hits = {} THEN None ELSE Some(CHOOSE i \in hits : \A j \in hits : i <= j)

-----------------------------------------------------------------------------
(* Structure kinds and their capabilities *)

Kinds == {"ElectPole", "SteamEngine", "Pipe", "TransportBelt"}
ItemTypes == Kinds \cup {"CoalOre"}

\* Structure::name
name(kind) ==
    CASE kind = "ElectPole" -> "Electric Pole"
      [] kind = "SteamEngine" -> "Steam Engine"
      [] kind = "Pipe" -> "Pipe"
      [] kind = "TransportBelt" -> "Transport Belt"

\* items::str_to_item, on the names of the structures
str_to_item(s) ==
    CASE s = "Electric Pole" -> Some("ElectPole")
      [] s = "Steam Engine" -> Some("SteamEngine")
      [] s = "Pipe" -> Some("Pipe")
      [] s = "Transport Belt" -> Some("TransportBelt")
      [] OTHER -> None

\* SteamEngine's override of Structure::power_source
SteamEngine_power_source == TRUE

\* Structure::power_source (default false), ElectPole::power_source
power_source(kind) ==
    CASE kind = "ElectPole" -> TRUE
      [] kind = "SteamEngine" -> SteamEngine_power_source
      [] OTHER -> FALSE

\* Structure::power_sink (default false), ElectPole::power_sink
power_sink(kind) == kind = "ElectPole"

\* Structure::wire_reach (default 3), ElectPole::wire_reach
wire_reach(kind) ==
    IF kind = "ElectPole" THEN ELECT_POLE_WIRE_REACH ELSE DEFAULT_WIRE_REACH

\* Structure::movable (default false)
movable(kind) == FALSE

\* Whether fluid_box() of the structure is Some: the kinds that carry fluid boxes
has_fluid_box(kind) == kind = "Pipe"

NoLinks == <<None, None, None, None>>

\* FactorishState::tool_rotation as FactorishState::new sets it; new_structure hands
\* it to the structures that can be rotated
tool_rotation == "Left"

\* the kinds whose structures carry a rotation
has_rotation(kind) == kind = "TransportBelt"

\* FactorishState::new_structure: a structure of the kind at the cursor, its fluid
\* boxes linked to nothing yet
new_structure(kind, cursor) ==
    [kind |-> kind, position |-> cursor,
     connect_to |-> IF has_fluid_box(kind) THEN NoLinks ELSE <<>>,
     rotation |-> IF has_rotation(kind) THEN Some(tool_rotation) ELSE None]

\* Structure::contains with the default 1x1 Structure::size
contains(s, pos) ==
    /\ s.position.x <= pos.x /\ pos.x < s.position.x + 1
    /\ s.position.y <= pos.y /\ pos.y < s.position.y + 1

-----------------------------------------------------------------------------
(* The arena: handles and lookup *)

StructureId(id, gen) == [id |-> id, gen |-> gen]

Live(strs, i) == strs[i + 1].dynamic # None

\* get_structure with the generation comparison left out
get_structure_any_gen(strs, id) ==
    LET hits == {i \in 0..(Len(strs) - 1) : id.id = i}
    IN IF hits = {} THEN None
       ELSE strs[(CHOOSE i \in hits : \A j \in hits : i <= j) + 1].dynamic

\* FactorishState::get_structure: the first slot whose index and generation are
\* those of the handle, then its occupant if any
get_structure(strs, id) ==
    LET hits == {i \in 0..(Len(strs) - 1) : id.id = i /\ id.gen = strs[i + 1].gen}
    IN IF hits = {} THEN None
       ELSE strs[(CHOOSE i \in hits : \A j \in hits : i <= j) + 1].dynamic

\* StructureDynIter::new_all: the whole slice on the left, nothing on the right
StructureDynIter_new_all(source) ==
    [left_start |-> 0, left |-> source, right_start |-> Len(source), right |-> <<>>]

\* StructureDynIter::new with the right part still starting at the centre
StructureDynIter_new_overlap(source, split_idx) ==
    IF split_idx >= Len(source) THEN None
    ELSE Some([center |-> source[split_idx + 1],
               others |-> [left_start |-> 0,
                           left |-> SubSeq(source, 1, split_idx),
                           right_start |-> split_idx,
                           right |-> SubSeq(source, split_idx + 1, Len(source))]])

\* StructureDynIter::new: None (an error) when split_idx is not below len, else
\* the centre entry and the view of the slots before and after it
StructureDynIter_new(source, split_idx) ==
    IF split_idx >= Len(source) THEN None
    ELSE Some([center |-> source[split_idx + 1],
               others |-> [left_start |-> 0,
                           left |-> SubSeq(source, 1, split_idx),
                           right_start |-> split_idx + 1,
                           right |-> SubSeq(source, split_idx + 2, Len(source))]])

\* StructureDynIter::get / get_mut: generation-checked lookup in the view
StructureDynIter_get(view, id) ==
    LET idx == id.id IN
    IF view.left_start <= idx /\ idx < view.left_start + Len(view.left)
    THEN LET s == view.left[idx - view.left_start + 1]
         IN IF s.gen = id.gen THEN s.dynamic ELSE None
    ELSE IF view.right_start <= idx /\ idx < view.right_start + Len(view.right)
    THEN LET s == view.right[idx - view.right_start + 1]
         IN IF s.gen = id.gen THEN s.dynamic ELSE None
    ELSE None

\* StructureDynIter::dyn_iter_id: the live entries of left then right, each with
\* the handle (its index in the arena, its generation)
StructureDynIter_dyn_iter_id(view) ==
    LET l == [i \in 1..Len(view.left) |->
                 [id |-> StructureId(i - 1 + view.left_start, view.left[i].gen),
                  s |-> view.left[i].dynamic]]
        r == [i \in 1..Len(view.right) |->
                 [id |-> StructureId(i - 1 + view.right_start, view.right[i].gen),
                  s |-> view.right[i].dynamic]]
        live == SelectSeq(l \o r, LAMBDA e : e.s # None)
    IN [k \in 1..Len(live) |-> [id |-> live[k].id, s |-> Unwrap(live[k].s)]]

\* StructureDynIter::dyn_iter / dyn_iter_mut: the live bundles of left then right
StructureDynIter_dyn_iter(view) ==
    LET all == [i \in 1..(Len(view.left) + Len(view.right)) |->
                   IF i <= Len(view.left) THEN view.left[i].dynamic
                   ELSE view.right[i - Len(view.left)].dynamic]
        live == SelectSeq(all, LAMBDA s : s # None)
    IN [k \in 1..Len(live) |-> Unwrap(live[k])]

\* get_pair_mut returning the pair in slot order instead of argument order
get_pair_mut_sorted(strs, a, b) ==
    LET at(i) == IF strs[i + 1].dynamic = None THEN None
                 ELSE Some([id |-> StructureId(i, strs[i + 1].gen),
                            s |-> Unwrap(strs[i + 1].dynamic)])
    IN IF a < b THEN <<at(a), at(b)>>
       ELSE IF b < a THEN <<at(b), at(a)>>
       ELSE <<None, None>>

\* FactorishState::get_pair_mut: the occupants of slots a and b with their handles
get_pair_mut(strs, a, b) ==
    LET at(i) == IF strs[i + 1].dynamic = None THEN None
                 ELSE Some([id |-> StructureId(i, strs[i + 1].gen),
                            s |-> Unwrap(strs[i + 1].dynamic)])
    IN IF a < b THEN <<at(a), at(b)>>
       ELSE IF b < a THEN <<at(a), at(b)>>
       ELSE <<None, None>>

-----------------------------------------------------------------------------
(* Power networks *)

PowerWire(a, b) == <<a, b>>

\* PowerNetwork: the wires of one connected component and the handles they touch
PowerNetwork(wires) ==
    [wires |-> wires,
     member_handles |-> {wires[i][1] : i \in 1..Len(wires)} \cup {wires[i][2] : i \in 1..Len(wires)}]

\* The step without the merge: a wire that bridges two networks joins the earlier one
add_wire_no_merge(nets, w) ==
    LET touching == {k \in 1..Len(nets) :
                        w[1] \in nets[k].member_handles \/ w[2] \in nets[k].member_handles}
    IN IF touching = {} THEN Append(nets, [wires |-> <<w>>, member_handles |-> {w[1], w[2]}])
       ELSE LET first == CHOOSE k \in touching : \A j \in touching : k <= j
            IN [nets EXCEPT ![first] =
                   [wires |-> Append(@.wires, w),
                    member_handles |-> @.member_handles \cup {w[1], w[2]}]]

\* One step of the component search: the wire w joins the networks found so far.
\* It opens a new network when it touches none, extends the one it touches, and
\* merges the two it bridges into the earlier of them.
add_wire_to_networks(nets, w) ==
    LET touching == {k \in 1..Len(nets) :
                        w[1] \in nets[k].member_handles \/ w[2] \in nets[k].member_handles}
    IN IF touching = {} THEN Append(nets, PowerNetwork(<<w>>))
       ELSE LET first == CHOOSE k \in touching : \A j \in touching : k <= j
                rest == touching \ {first}
                RECURSIVE gather(_)
                gather(k) ==
                    IF k > Len(nets) THEN <<>>
                    ELSE (IF k \in rest THEN nets[k].wires ELSE <<>>) \o gather(k + 1)
                merged == PowerNetwork(nets[first].wires \o gather(1) \o <<w>>)
                kept == SeqFilterIdx(Len(nets), [k \in 1..Len(nets) |-> k \notin rest], 1)
            IN [i \in 1..Len(kept) |-> IF kept[i] = first THEN merged ELSE nets[kept[i]]]

RECURSIVE build_from(_, _, _)
build_from(nets, wires, i) ==
    IF i > Len(wires) THEN nets
    ELSE build_from(add_wire_to_networks(nets, wires[i]), wires, i + 1)

\* power_network::build_power_networks: the connected components of the wire
\* list, in the order in which their first wire appears
build_power_networks(strs, wires) == build_from(<<>>, wires, 1)

-----------------------------------------------------------------------------
(* Fluid links between structures of the arena *)

\* fb.connect_to[idx] = v in the fluid boxes of the occupant of an entry
SetLink(dynamic, idx, v) ==
    Some([Unwrap(dynamic) EXCEPT !.connect_to = [@ EXCEPT ![idx + 1] = v]])

RECURSIVE link_loop_same_side(_, _, _)
\* the linking loop with the two link indices exchanged
link_loop_same_side(strs, i, j) ==
    IF j >= Len(strs) THEN strs
    ELSE IF i = j THEN link_loop_same_side(strs, i, j + 1)
    ELSE LET pair == get_pair_mut(strs, i, j) IN
         IF pair[1] = None \/ pair[2] = None THEN link_loop_same_side(strs, i, j + 1)
         ELSE LET a == Unwrap(pair[1])
                  b == Unwrap(pair[2])
                  idx == neighbor_index(a.s.position, b.s.position)
              IN IF idx = None \/ ~has_fluid_box(a.s.kind) \/ ~has_fluid_box(b.s.kind)
                 THEN link_loop_same_side(strs, i, j + 1)
                 ELSE link_loop_same_side(
                        [strs EXCEPT
                            ![i + 1].dynamic = SetLink(@, Unwrap(idx), Some(b.id)),
                            ![j + 1].dynamic = SetLink(@, (Unwrap(idx) + 2) % 4, Some(a.id))],
                        i, j + 1)

RECURSIVE link_loop(_, _, _)
\* the loop over j of update_fluid_connections when a fluid structure stands at i
link_loop(strs, i, j) ==
    IF j >= Len(strs) THEN strs
    ELSE IF i = j THEN link_loop(strs, i, j + 1)
    ELSE LET pair == get_pair_mut(strs, i, j) IN
         IF pair[1] = None \/ pair[2] = None THEN link_loop(strs, i, j + 1)
         ELSE LET a == Unwrap(pair[1])
                  b == Unwrap(pair[2])
                  idx == neighbor_index(a.s.position, b.s.position)
              IN IF idx = None \/ ~has_fluid_box(a.s.kind) \/ ~has_fluid_box(b.s.kind)
                 THEN link_loop(strs, i, j + 1)
                 ELSE link_loop(
                        [strs EXCEPT
                            ![i + 1].dynamic = SetLink(@, (Unwrap(idx) + 2) % 4, Some(b.id)),
                            ![j + 1].dynamic = SetLink(@, Unwrap(idx), Some(a.id))],
                        i, j + 1)

\* the loop over j of update_fluid_connections when no fluid structure stands there
unlink_all(strs, position) ==
    [k \in 1..Len(strs) |->
        IF strs[k].dynamic = None THEN strs[k]
        ELSE LET s == Unwrap(strs[k].dynamic)
                 idx == neighbor_index(position, s.position)
             IN IF idx = None \/ ~has_fluid_box(s.kind) THEN strs[k]
                ELSE [strs[k] EXCEPT !.dynamic = SetLink(@, Unwrap(idx), None)]]

\* FactorishState::update_fluid_connections
update_fluid_connections(strs, position) ==
    LET found == {i \in 0..(Len(strs) - 1) :
                     /\ strs[i + 1].dynamic # None
                     /\ Unwrap(strs[i + 1].dynamic).position = position
                     /\ has_fluid_box(Unwrap(strs[i + 1].dynamic).kind)}
    IN IF found # {}
       THEN link_loop(strs, CHOOSE i \in found : \A j \in found : i <= j, 0)
       ELSE unlink_all(strs, position)

-----------------------------------------------------------------------------
(* The world: the fields of FactorishState that the operations below change *)

World == [structures |-> structures, power_wires |-> power_wires,
          power_networks |-> power_networks, player |-> player,
          drop_items |-> drop_items, sim_time |-> sim_time, harvested |-> harvested]

\* Player::add_item / Inventory::add_items
add_item(inv, type_, count) == [inv EXCEPT ![type_] = @ + count]

\* harvest keeping the wires whose second end is slot i
prune_wires_first_end(wires, i) == SelectSeq(wires, LAMBDA pw : pw[1].id # i)

\* harvest: the wires that do not touch slot i
prune_wires(wires, i) == SelectSeq(wires, LAMBDA pw : pw[1].id # i /\ pw[2].id # i)

\* the loop body of harvest without `self.structures[i].gen += 1`
harvest_slot_keep_gen(w, i) ==
    LET structure == Unwrap(w.structures[i + 1].dynamic)
        gen == w.structures[i + 1].gen
        taken == [w.structures EXCEPT ![i + 1] = [gen |-> gen, dynamic |-> None]]
        wires == prune_wires(w.power_wires, i)
    IN [w EXCEPT
           !.structures = update_fluid_connections(taken, structure.position),
           !.player = add_item(w.player, Unwrap(str_to_item(name(structure.kind))), 1),
           !.power_wires = wires,
           !.power_networks = build_power_networks(taken, wires),
           !.harvested = @ \cup {StructureId(i, gen)}]

\* the body of the loop of harvest for the structure in slot i
harvest_slot(w, i) ==
    LET structure == Unwrap(w.structures[i + 1].dynamic)
        gen == w.structures[i + 1].gen
        taken == [w.structures EXCEPT ![i + 1] = [gen |-> gen + 1, dynamic |-> None]]
        wires == prune_wires(w.power_wires, i)
    IN [w EXCEPT
           !.structures = update_fluid_connections(taken, structure.position),
           !.player = add_item(w.player, Unwrap(str_to_item(name(structure.kind))), 1),
           !.power_wires = wires,
           !.power_networks = build_power_networks(taken, wires),
           !.harvested = @ \cup {StructureId(i, gen)}]

RECURSIVE harvest_loop(_, _, _, _)
\* for i in 0..self.structures.len(): harvest every structure that contains the position
harvest_loop(w, position, i, any) ==
    IF i >= Len(w.structures) THEN [w |-> w, harvested_structure |-> any]
    ELSE IF w.structures[i + 1].dynamic # None
            /\ contains(Unwrap(w.structures[i + 1].dynamic), position)
         THEN harvest_loop(harvest_slot(w, i), position, i + 1, TRUE)
         ELSE harvest_loop(w, position, i + 1, any)

\* the tile of a dropped item: div_euclid(TILE_SIZE_I) of its pixel coordinates
item_tile(item) == Pos(item.x \div TILE_SIZE_I, item.y \div TILE_SIZE_I)

RECURSIVE pick_items(_, _, _)
\* the second half of harvest: pick up the dropped items of the tile
pick_items(w, position, k) ==
    IF k > Len(w.drop_items) THEN w
    ELSE LET entry == w.drop_items[k] IN
         IF entry.item = None \/ item_tile(Unwrap(entry.item)) # position
         THEN pick_items(w, position, k + 1)
         ELSE pick_items(
                [w EXCEPT !.drop_items[k].item = None,
                          !.player = add_item(w.player, Unwrap(entry.item).type_, 1)],
                position, k + 1)

\* FactorishState::harvest
harvest(w, position, clear_item) ==
    LET h == harvest_loop(w, position, 0, FALSE)
    IN IF ~h.harvested_structure /\ clear_item THEN pick_items(h.w, position, 1) ELSE h.w

\* mouse_up: the handle of the first empty slot, or of a new slot at the end
find_slot(strs) ==
    LET empty == {i \in 0..(Len(strs) - 1) : strs[i + 1].dynamic = None}
    IN IF empty # {}
       THEN LET i == CHOOSE i \in empty : \A j \in empty : i <= j
            IN StructureId(i, strs[i + 1].gen)
       ELSE StructureId(Len(strs), 0)

\* the wire condition with the reach itself left out
wire_compatible_short(new_s, structure) ==
    /\ \/ power_sink(new_s.kind) /\ power_source(structure.kind)
       \/ power_source(new_s.kind) /\ power_sink(structure.kind)
    /\ distance(new_s.position, structure.position)
         < Min(wire_reach(new_s.kind), wire_reach(structure.kind))

\* mouse_up: whether the new structure and an existing one get a wire
wire_compatible(new_s, structure) ==
    /\ \/ power_sink(new_s.kind) /\ power_source(structure.kind)
       \/ power_source(new_s.kind) /\ power_sink(structure.kind)
    /\ distance(new_s.position, structure.position)
         <= Min(wire_reach(new_s.kind), wire_reach(structure.kind))

RECURSIVE add_wires_first_only(_, _, _, _, _)
\* the wire loop leaving after the first wire it pushes
add_wires_first_only(wires, strs, new_s, id, i) ==
    IF i >= Len(strs) THEN wires
    ELSE IF strs[i + 1].dynamic # None
            /\ wire_compatible(new_s, Unwrap(strs[i + 1].dynamic))
         THEN LET new_power_wire == PowerWire(id, StructureId(i, strs[i + 1].gen))
              IN IF \E k \in 1..Len(wires) : wires[k] = new_power_wire
                 THEN add_wires_first_only(wires, strs, new_s, id, i + 1)
                 ELSE Append(wires, new_power_wire)
         ELSE add_wires_first_only(wires, strs, new_s, id, i + 1)

RECURSIVE add_wires(_, _, _, _, _)
\* mouse_up: the loop over the live structures that pushes the new wires
add_wires(wires, strs, new_s, id, i) ==
    IF i >= Len(strs) THEN wires
    ELSE IF strs[i + 1].dynamic # None
            /\ wire_compatible(new_s, Unwrap(strs[i + 1].dynamic))
         THEN LET new_power_wire == PowerWire(id, StructureId(i, strs[i + 1].gen))
              IN IF \E k \in 1..Len(wires) : wires[k] = new_power_wire
                 THEN add_wires(wires, strs, new_s, id, i + 1)
                 ELSE add_wires(Append(wires, new_power_wire), strs, new_s, id, i + 1)
         ELSE add_wires(wires, strs, new_s, id, i + 1)

\* mouse_up: the new structure goes into the slot of the handle, or is pushed
insert_structure(strs, id, new_s) ==
    IF id.id < Len(strs)
    THEN [strs EXCEPT ![id.id + 1].dynamic = Some(new_s)]
    ELSE Append(strs, [gen |-> 0, dynamic |-> Some(new_s)])

\* mouse_up with the networks rebuilt before the new wires are pushed
place_build_before_wires(w, kind, cursor) ==
    LET new_s == new_structure(kind, cursor)
        w1 == harvest(w, cursor, ~movable(kind))
        id == find_slot(w1.structures)
        wires == add_wires(w1.power_wires, w1.structures, new_s, id, 0)
        inserted == insert_structure(w1.structures, id, new_s)
    IN [w1 EXCEPT
           !.power_wires = wires,
           !.power_networks = build_power_networks(inserted, w1.power_wires),
           !.structures = update_fluid_connections(inserted, cursor),
           !.player = add_item(w1.player, kind, -1)]

\* mouse_up that builds without harvesting the tiles of the new structure first
place_no_harvest(w, kind, cursor) ==
    LET new_s == new_structure(kind, cursor)
        id == find_slot(w.structures)
        wires == add_wires(w.power_wires, w.structures, new_s, id, 0)
        inserted == insert_structure(w.structures, id, new_s)
    IN [w EXCEPT
           !.power_wires = wires,
           !.power_networks = build_power_networks(inserted, wires),
           !.structures = update_fluid_connections(inserted, cursor),
           !.player = add_item(w.player, kind, -1)]

\* FactorishState::mouse_up, button 0 with a tool selected: place a structure
place(w, kind, cursor) ==
    LET new_s == new_structure(kind, cursor)
        w1 == harvest(w, cursor, ~movable(kind))
        id == find_slot(w1.structures)
        wires == add_wires(w1.power_wires, w1.structures, new_s, id, 0)
        inserted == insert_structure(w1.structures, id, new_s)
    IN [w1 EXCEPT
           !.power_wires = wires,
           !.power_networks = build_power_networks(inserted, wires),
           !.structures = update_fluid_connections(inserted, cursor),
           !.player = add_item(w1.player, kind, -1)]

-----------------------------------------------------------------------------
(* Rotation *)

\* Rotation::next, the enum taken round: Left, Top, Right, Bottom
Rotation_next(r) ==
    CASE r = "Left" -> "Top"
      [] r = "Top" -> "Right"
      [] r = "Right" -> "Bottom"
      [] r = "Bottom" -> "Left"

\* Structure::rotate of the trait, which no structure of the model overrides
Structure_rotate(s) == "NotSupported"

\* StructureBundle::rotate: the behaviour first, then the rotation component
StructureBundle_rotate(s) ==
    IF Structure_rotate(s) = "Ok" THEN [s |-> s, ret |-> "Ok"]
    ELSE IF s.rotation # None
         THEN [s |-> [s EXCEPT !.rotation = Some(Rotation_next(Unwrap(@)))], ret |-> "Ok"]
         ELSE [s |-> s, ret |-> Structure_rotate(s)]

\* FactorishState::find_structure_tile_idx: the place, among the live structures
\* that structure_iter yields, of the first one standing on the tile
find_structure_tile_idx(strs, tile) ==
    LET live == SeqFilterIdx(Len(strs), [k \in 1..Len(strs) |-> strs[k].dynamic # None], 1)
        hits == {k \in 1..Len(live) : Unwrap(strs[live[k]].dynamic).position = tile}
    IN IF hits = {} THEN None ELSE Some((CHOOSE k \in hits : \A j \in hits : k <= j) - 1)

\* FactorishState::rotate with no item selected: the structure on the cursor tile
\* is looked up and rotated; the function ends in NotFound unless `?` left it earlier
rotate(w, cursor) ==
    IF cursor = None THEN [w |-> w, ret |-> "NotFound"]
    ELSE LET idx == find_structure_tile_idx(w.structures, Unwrap(cursor)) IN
         IF idx = None THEN [w |-> w, ret |-> "NotFound"]
         ELSE LET new == StructureDynIter_new(w.structures, Unwrap(idx)) IN
              IF new = None THEN [w |-> w, ret |-> "NotFound"]
              ELSE IF Unwrap(new).center.dynamic = None THEN [w |-> w, ret |-> "NotFound"]
              ELSE LET r == StructureBundle_rotate(Unwrap(Unwrap(new).center.dynamic))
                   IN IF r.ret = "Ok"
                      THEN [w |-> [w EXCEPT !.structures[Unwrap(idx) + 1].dynamic = Some(r.s)],
                            ret |-> "NotFound"]
                      ELSE [w |-> w, ret |-> r.ret]

-----------------------------------------------------------------------------
(* Save and load *)

\* the indices (0-based, ascending) of the live slots
live_slots(strs) ==
    LET idx == SeqFilterIdx(Len(strs), [k \in 1..Len(strs) |-> strs[k].dynamic # None], 1)
    IN [k \in 1..Len(idx) |-> idx[k] - 1]

\* id_to_index without the compaction: each handle keeps its arena index
id_to_index_raw(strs) ==
    LET live == live_slots(strs)
    IN [h \in {StructureId(live[k], strs[live[k] + 1].gen) : k \in 1..Len(live)} |-> h.id]

\* serialize_game: id_to_index, from the handle of each live slot to its place
\* among the live slots
id_to_index(strs) ==
    LET live == live_slots(strs)
    IN [h \in {StructureId(live[k], strs[live[k] + 1].gen) : k \in 1..Len(live)} |->
           (CHOOSE k \in 1..Len(live) : live[k] = h.id) - 1]

\* serialize_game: the "structures" array, one {type, payload} per live slot
serialize_structures(strs) ==
    LET live == live_slots(strs)
    IN [k \in 1..Len(live) |->
           [type |-> name(Unwrap(strs[live[k] + 1].dynamic).kind),
            payload |-> [position |-> Unwrap(strs[live[k] + 1].dynamic).position]]]

\* serialize_game: the "power_wires" array, the wires whose two handles are in
\* id_to_index, as pairs of compacted indices
serialize_wires(strs, wires) ==
    LET map == id_to_index(strs)
        kept == SelectSeq(wires, LAMBDA pw : pw[1] \in DOMAIN map /\ pw[2] \in DOMAIN map)
    IN [k \in 1..Len(kept) |-> <<map[kept[k][1]], map[kept[k][2]]>>]

\* FactorishState::serialize_game
serialize_game(w) ==
    [version |-> Some(SAVE_VERSION),
     sim_time |-> Some(w.sim_time),
     player |-> Some(w.player),
     width |-> Some("width"),
     structures |-> Some(serialize_structures(w.structures)),
     power_wires |-> Some(serialize_wires(w.structures, w.power_wires)),
     items |-> LET live == SelectSeq(w.drop_items, LAMBDA e : e.item # None)
               IN Some([k \in 1..Len(live) |-> Unwrap(live[k].item)]),
     tool_belt |-> Some("tool_belt"),
     board |-> Some("board")]

\* FactorishState::structure_from_json: None when the type names no structure
structure_from_json(value) ==
    LET item_type == str_to_item(value.type)
    IN IF item_type = None THEN None
       ELSE Some(new_structure(Unwrap(item_type), value.payload.position))

RECURSIVE relink_all(_, _, _)
\* deserialize_game: update_fluid_connections for the position of every structure
relink_all(strs, positions, k) ==
    IF k > Len(positions) THEN strs
    ELSE relink_all(update_fluid_connections(strs, positions[k]), positions, k + 1)

\* deserialize_game with the arena and the drop items cleared before the version check
deserialize_game_clear_first(w, json) ==
    LET version == IF json.version = None THEN 0 ELSE Unwrap(json.version)
        w1 == [w EXCEPT !.structures = <<>>, !.drop_items = <<>>, !.harvested = {}]
        w2 == [w1 EXCEPT !.sim_time = Unwrap(json.sim_time)]
        w3 == [w2 EXCEPT !.player = Unwrap(json.player)]
        js == Unwrap(json.structures)
        jw == Unwrap(json.power_wires)
        ji == Unwrap(json.items)
        loaded == [k \in 1..Len(js) |-> [gen |-> 0, dynamic |-> structure_from_json(js[k])]]
        wires == [k \in 1..Len(jw) |->
                     PowerWire(StructureId(jw[k][1], 0), StructureId(jw[k][2], 0))]
        w4 == [w3 EXCEPT !.power_wires = wires]
        linked == relink_all(loaded,
                             [k \in 1..Len(loaded) |-> Unwrap(loaded[k].dynamic).position], 1)
        w5 == [w4 EXCEPT !.structures = linked,
                         !.power_networks = build_power_networks(linked, wires)]
        w6 == [w5 EXCEPT !.drop_items = [k \in 1..Len(ji) |-> [gen |-> 0, item |-> Some(ji[k])]]]
    IN IF version < SAVE_VERSION
       THEN [w |-> w1, err |-> Some("Save data version is too old. Please start a new game.")]
       ELSE IF json.sim_time = None THEN [w |-> w1, err |-> Some("sim_time not found")]
       ELSE IF json.player = None THEN [w |-> w2, err |-> Some("player not found")]
       ELSE IF json.width = None THEN [w |-> w3, err |-> Some("width not found")]
       ELSE IF json.board = None THEN [w |-> w3, err |-> Some("board not found in saved data")]
       ELSE IF json.structures = None
            THEN [w |-> w3, err |-> Some("structures not found in saved data")]
       ELSE IF \E k \in 1..Len(js) : structure_from_json(js[k]) = None
            THEN [w |-> w3, err |-> Some("The structure type is not defined")]
       ELSE IF json.power_wires = None
            THEN [w |-> w3, err |-> Some("power_wires not found in saved data")]
       ELSE IF json.items = None THEN [w |-> w5, err |-> Some("\"items\" not found")]
       ELSE IF json.tool_belt = None THEN [w |-> w6, err |-> Some("tool_belt not found")]
       ELSE [w |-> w6, err |-> None]

\* FactorishState::deserialize_game: the world after the call and the error returned
\* (None when it returned Ok). A field of the document is Some(value) or None.
deserialize_game(w, json) ==
    LET version == IF json.version = None THEN 0 ELSE Unwrap(json.version)
        w1 == [w EXCEPT !.structures = <<>>, !.drop_items = <<>>, !.harvested = {}]
        w2 == [w1 EXCEPT !.sim_time = Unwrap(json.sim_time)]
        w3 == [w2 EXCEPT !.player = Unwrap(json.player)]
        js == Unwrap(json.structures)
        jw == Unwrap(json.power_wires)
        ji == Unwrap(json.items)
        loaded == [k \in 1..Len(js) |-> [gen |-> 0, dynamic |-> structure_from_json(js[k])]]
        wires == [k \in 1..Len(jw) |->
                     PowerWire(StructureId(jw[k][1], 0), StructureId(jw[k][2], 0))]
        w4 == [w3 EXCEPT !.power_wires = wires]
        linked == relink_all(loaded,
                             [k \in 1..Len(loaded) |-> Unwrap(loaded[k].dynamic).position], 1)
        w5 == [w4 EXCEPT !.structures = linked,
                         !.power_networks = build_power_networks(linked, wires)]
        w6 == [w5 EXCEPT !.drop_items = [k \in 1..Len(ji) |-> [gen |-> 0, item |-> Some(ji[k])]]]
    IN IF version < SAVE_VERSION
       THEN [w |-> w, err |-> Some("Save data version is too old. Please start a new game.")]
       ELSE IF json.sim_time = None THEN [w |-> w1, err |-> Some("sim_time not found")]
       ELSE IF json.player = None THEN [w |-> w2, err |-> Some("player not found")]
       ELSE IF json.width = None THEN [w |-> w3, err |-> Some("width not found")]
       ELSE IF json.board = None THEN [w |-> w3, err |-> Some("board not found in saved data")]
       ELSE IF json.structures = None
            THEN [w |-> w3, err |-> Some("structures not found in saved data")]
       ELSE IF \E k \in 1..Len(js) : structure_from_json(js[k]) = None
            THEN [w |-> w3, err |-> Some("The structure type is not defined")]
       ELSE IF json.power_wires = None
            THEN [w |-> w3, err |-> Some("power_wires not found in saved data")]
       ELSE IF json.items = None THEN [w |-> w5, err |-> Some("\"items\" not found")]
       ELSE IF json.tool_belt = None THEN [w |-> w6, err |-> Some("tool_belt not found")]
       ELSE [w |-> w6, err |-> None]

\* The ways a saved document can be unfit for loading
Defects == {"none", "old_version", "no_version", "no_sim_time", "no_player", "no_width",
            "no_board", "no_structures", "bad_structure_type", "no_power_wires",
            "no_items", "no_tool_belt"}

\* the document with the defect
damage(json, defect) ==
    CASE defect = "none" -> json
      [] defect = "old_version" -> [json EXCEPT !.version = Some(SAVE_VERSION - 1)]
      [] defect = "no_version" -> [json EXCEPT !.version = None]
      [] defect = "no_sim_time" -> [json EXCEPT !.sim_time = None]
      [] defect = "no_player" -> [json EXCEPT !.player = None]
      [] defect = "no_width" -> [json EXCEPT !.width = None]
      [] defect = "no_board" -> [json EXCEPT !.board = None]
      [] defect = "no_structures" -> [json EXCEPT !.structures = None]
      [] defect = "bad_structure_type" ->
            [json EXCEPT !.structures =
                Some(Append(Unwrap(@), [type |-> "Unknown", payload |-> [position |-> Pos(0, 0)]]))]
      [] defect = "no_power_wires" -> [json EXCEPT !.power_wires = None]
      [] defect = "no_items" -> [json EXCEPT !.items = None]
      [] defect = "no_tool_belt" -> [json EXCEPT !.tool_belt = None]

-----------------------------------------------------------------------------
(* The fluid flow engine: FluidBox::simulate *)

\* Amounts are f64 in the source. Here they are exact decimals counted in units of
\* 10^-MaxFlowSteps, so that a tenth of a pressure is exact for MaxFlowSteps flow
\* steps; rounding is not modelled.
RECURSIVE Pow10(_)
Pow10(n) == IF n = 0 THEN 1 ELSE 10 * Pow10(n - 1)

Unit == Pow10(MaxFlowSteps)

FluidType == {"Water", "Steam"}

\* struct FluidBox, with the max_amount that FluidBox::new gives every box
FluidBox(type_, amount, input_enable, output_enable, connect_to, filter) ==
    [type_ |-> type_, amount |-> amount, max_amount |-> 100 * Unit,
     input_enable |-> input_enable, output_enable |-> output_enable,
     connect_to |-> connect_to, filter |-> filter]

\* the mixing test without the test of the neighbor's amount
wont_mix_any_amount(self_box, fluid_box) ==
    /\ fluid_box.type_ # self_box.type_
    /\ fluid_box.type_ # None

\* process_fluid_box: "Different types of fluids won't mix"
wont_mix(self_box, fluid_box) ==
    /\ 0 < fluid_box.amount
    /\ fluid_box.type_ # self_box.type_
    /\ fluid_box.type_ # None

\* the flow with no rate: the whole pressure at once
flow_of_full(pressure) == pressure

\* process_fluid_box: flow = pressure * 0.1
flow_of(pressure) == pressure \div 10

\* the valve test with the receiver's filter compared with the receiver's own type
blocked_own_filter(self_box, fluid_box, flow) ==
    IF flow < 0
    THEN \/ ~self_box.output_enable
         \/ ~fluid_box.input_enable
         \/ fluid_box.filter # None /\ fluid_box.filter # fluid_box.type_
    ELSE \/ ~self_box.input_enable
         \/ ~fluid_box.output_enable
         \/ self_box.filter # None /\ self_box.filter # self_box.type_

\* the valve test that looks at self's valves only
blocked_self_valves(self_box, fluid_box, flow) ==
    IF flow < 0
    THEN \/ ~self_box.output_enable
         \/ fluid_box.filter # None /\ fluid_box.filter # self_box.type_
    ELSE \/ ~self_box.input_enable
         \/ self_box.filter # None /\ self_box.filter # fluid_box.type_

\* process_fluid_box: "Check input/output valve state", and the receiver's filter
blocked(self_box, fluid_box, flow) ==
    IF flow < 0
    THEN \/ ~self_box.output_enable
         \/ ~fluid_box.input_enable
         \/ fluid_box.filter # None /\ fluid_box.filter # self_box.type_
    ELSE \/ ~self_box.input_enable
         \/ ~fluid_box.output_enable
         \/ self_box.filter # None /\ self_box.filter # fluid_box.type_

\* the transfer that credits self and leaves the neighbor's amount alone
transfer_no_debit(self_box, fluid_box, flow) ==
    [self_box |-> [self_box EXCEPT !.amount = @ + flow,
                                   !.type_ = IF flow < 0 THEN @ ELSE fluid_box.type_],
     fluid_box |-> [fluid_box EXCEPT !.type_ = IF flow < 0 THEN self_box.type_ ELSE @]]

\* the transfer that moves the amounts and leaves both types alone
transfer_keep_types(self_box, fluid_box, flow) ==
    [self_box |-> [self_box EXCEPT !.amount = @ + flow],
     fluid_box |-> [fluid_box EXCEPT !.amount = @ - flow]]

\* process_fluid_box: the amounts move and the receiver takes the giver's type
transfer(self_box, fluid_box, flow) ==
    [self_box |-> [self_box EXCEPT !.amount = @ + flow,
                                   !.type_ = IF flow < 0 THEN @ ELSE fluid_box.type_],
     fluid_box |-> [fluid_box EXCEPT !.amount = @ - flow,
                                     !.type_ = IF flow < 0 THEN self_box.type_ ELSE @]]

\* process_fluid_box for link i of self: the two boxes after the step, what became
\* of it, and the biggest flow seen so far by the simulate call
process_fluid_box(self_box, fluid_box, i, biggest) ==
    LET pressure == fluid_box.amount - self_box.amount
        flow == flow_of(pressure)
        same(outcome) == [self_box |-> self_box, fluid_box |-> fluid_box,
                          pressure |-> pressure, flow |-> flow, outcome |-> outcome,
                          biggest |-> biggest]
    IN IF wont_mix(self_box, fluid_box) THEN same("wont_mix")
       ELSE IF blocked(self_box, fluid_box, flow) THEN same("blocked")
       ELSE LET t == transfer(self_box, fluid_box, flow)
            IN [self_box |-> t.self_box, fluid_box |-> t.fluid_box,
                pressure |-> pressure, flow |-> flow, outcome |-> "moved",
                biggest |-> IF biggest.amount < Abs(flow)
                            THEN [amount |-> flow, idx |-> i]
                            ELSE biggest]

\* the loop of FluidBox::simulate from link i on. bs maps the entities that have an
\* InputFluidBox to it; self is bs[b]; connect_to is the copy taken before the loop.
RECURSIVE simulate_loop(_, _, _, _, _, _)
simulate_loop(bs, b, connect_to, i, log, biggest) ==
    IF i > Len(connect_to) THEN [boxes |-> bs, log |-> log, biggest |-> biggest]
    ELSE LET connect == connect_to[i] IN
         IF connect = None \/ Unwrap(connect) \notin DOMAIN bs
         THEN simulate_loop(bs, b, connect_to, i + 1, log, biggest)
         ELSE LET to == Unwrap(connect)
                  r == process_fluid_box(bs[b], bs[to], i - 1, biggest)
                  bs2 == [bs EXCEPT ![b] = r.self_box, ![to] = r.fluid_box]
                  entry == [i |-> i - 1, to |-> to, pressure |-> r.pressure,
                            flow |-> r.flow, outcome |-> r.outcome]
              IN simulate_loop(bs2, b, connect_to, i + 1, Append(log, entry), r.biggest)

\* FluidBox::simulate on box b
simulate(bs, b) ==
    IF bs[b].amount = 0 \/ (~bs[b].input_enable /\ ~bs[b].output_enable)
    THEN [boxes |-> bs, log |-> <<>>, biggest |-> [amount |-> Unit \div 1000, idx |-> 0 - 1]]
    ELSE simulate_loop(bs, b, bs[b].connect_to, 1, <<>>,
                       [amount |-> Unit \div 1000, idx |-> 0 - 1])

-----------------------------------------------------------------------------
(* The links of the fluid boxes in the specs World *)

\* the pairs (entity, entity2) in the order of the two nested joins over n entities
JoinPairs(n) == [k \in 1..(n * n) |-> <<((k - 1) \div n) + 1, ((k - 1) % n) + 1>>]

\* FluidBox::list_connections: world[e] is the Position of entity e and whether it
\* has an OutputFluidBox
list_connections(world) ==
    SelectSeq(JoinPairs(Len(world)),
              LAMBDA c : /\ world[c[1]].ofb
                         /\ world[c[2]].ofb
                         /\ Abs(world[c[1]].position.x - world[c[2]].position.x) <= 1
                         /\ Abs(world[c[1]].position.y - world[c[2]].position.y) <= 1)

RECURSIVE update_loop(_, _, _, _, _)
\* the loop of update_connections from connection k on; idx is the local variable
update_loop(links, entity, conns, k, idx) ==
    IF k > Len(conns) THEN [connect_to |-> links, err |-> None]
    ELSE IF conns[k][1] # entity THEN update_loop(links, entity, conns, k + 1, idx)
    ELSE IF idx < Len(links)
         THEN update_loop([links EXCEPT ![idx + 1] = Some(conns[k][2])],
                          entity, conns, k + 1, idx)
         ELSE [connect_to |-> links, err |-> Some("More than 4 connections in a fluid box!")]

\* FluidBox::update_connections on a box whose connect_to is links
update_connections(links, entity, conns) == update_loop(links, entity, conns, 1, 0)

-----------------------------------------------------------------------------
(* The game: a new game, then clicks of the player, saves and loads *)

RECURSIVE SumGen(_, _)
\* the sum of the generations of the item slots from slot k on
SumGen(items, k) == IF k > Len(items) THEN 0 ELSE items[k].gen + SumGen(items, k + 1)

\* a dropped item lying in the middle of a tile
DropItem_new(type_, c, r) ==
    [type_ |-> type_, x |-> c * TILE_SIZE_I + TILE_SIZE_I \div 2,
     y |-> r * TILE_SIZE_I + TILE_SIZE_I \div 2]

\* the dropped items the scenario starts with: a coal ore on a tile beside the
\* tiles the cursor visits
InitialItems == <<[gen |-> 0, item |-> Some(DropItem_new("CoalOre", 2, 0))]>>

\* the handle of the item in slot k - 1
DropItemId(items, k) == [id |-> k - 1, gen |-> items[k].gen]

\* the index of the drop items, kept here as the set of the registrations made:
\* which item lies where. add_index registers one item.
add_index(index, id, x, y) == index \cup {[id |-> id, x |-> x, y |-> y]}

\* build_index: every live item registered where it lies
build_index(items) ==
    {[id |-> DropItemId(items, k), x |-> Unwrap(items[k].item).x,
      y |-> Unwrap(items[k].item).y] : k \in {j \in 1..Len(items) : items[j].item # None}}

NoEcs == [ecs |-> <<>>, connections |-> <<>>, fluid_links |-> <<>>]
NoLog == [self |-> 0, steps |-> <<>>]
NoFluid == [boxes |-> <<>>, flowlog |-> NoLog, nsteps |-> 0]
NoNet == [net_wires |-> <<>>, net_out |-> None]
NoFrame == [pc |-> "idle", i |-> 0, calls |-> <<>>]
NoOutlet == [pole_power |-> 0, outlets |-> <<>>]
NoBundle == [dynamic |-> None, burner |-> None, factory |-> None, call |-> None]

\* FactorishState::new, with an empty arena and the player's inventory cut down to
\* what fills the arena: MaxSlots - 1 electric poles and one steam engine
InitWorld ==
    /\ structures = <<>>
    /\ power_wires = <<>>
    /\ power_networks = <<>>
    /\ player = [t \in ItemTypes |->
                    IF t = "ElectPole" THEN MaxSlots - 1
                    ELSE IF t = "SteamEngine" THEN 1 ELSE 0]
    /\ drop_items = InitialItems
    /\ drop_items_index = build_index(InitialItems)
    /\ sim_time = 0
    /\ harvested = {}
    /\ result = [op |-> "new", err |-> None, moved |-> 0]
    /\ frame = NoFrame

Init ==
    /\ InitWorld
    /\ ecs = NoEcs.ecs /\ connections = NoEcs.connections /\ fluid_links = NoEcs.fluid_links
    /\ pole_power = NoOutlet.pole_power /\ outlets = NoOutlet.outlets
    /\ bundle = NoBundle
    /\ boxes = NoFluid.boxes /\ flowlog = NoFluid.flowlog /\ nsteps = NoFluid.nsteps
    /\ boxes0 = NoFluid.boxes
    /\ net_wires = NoNet.net_wires /\ net_out = NoNet.net_out

SetWorld(w) ==
    /\ structures' = w.structures
    /\ power_wires' = w.power_wires
    /\ power_networks' = w.power_networks
    /\ player' = w.player
    /\ drop_items' = w.drop_items
    /\ sim_time' = w.sim_time
    /\ harvested' = w.harvested

occupants(strs, pos) ==
    {i \in 0..(Len(strs) - 1) : strs[i + 1].dynamic # None /\ contains(Unwrap(strs[i + 1].dynamic), pos)}

\* the harvest of the tile keeps the number of harvests within the bound of the model
WithinHarvests(pos) ==
    Cardinality(harvested) + Cardinality(occupants(structures, pos)) <= MaxHarvests

\* no call has failed so far: a behaviour of the model ends at the first failed load
Running == result.err = None

\* mouse_up that places without looking at the count the player holds
Place_any_count(kind, cursor) ==
    /\ Running
    /\ WithinHarvests(cursor)
    /\ \/ Len(structures) < MaxSlots
       \/ \E i \in 0..(Len(structures) - 1) : structures[i + 1].dynamic = None
       \/ occupants(structures, cursor) # {}
    /\ SetWorld(place(World, kind, cursor))
    /\ result' = [op |-> "mouse_up", err |-> None, moved |-> 0]
    /\ UNCHANGED <<outletVars, objectVars, ecsVars, fluidVars, netVars, bundleVars, frameVars>>

\* mouse_up with button 0 and the tool `kind` selected, on a land tile
Place(kind, cursor) ==
    /\ Running
    /\ player[kind] >= 1
    /\ WithinHarvests(cursor)
    /\ \/ Len(structures) < MaxSlots
       \/ \E i \in 0..(Len(structures) - 1) : structures[i + 1].dynamic = None
       \/ occupants(structures, cursor) # {}
    /\ SetWorld(place(World, kind, cursor))
    /\ result' = [op |-> "mouse_up", err |-> None, moved |-> 0]
    /\ UNCHANGED <<outletVars, objectVars, ecsVars, fluidVars, netVars, bundleVars, frameVars>>

\* mouse_up with button 2: harvest the tile under the cursor
Harvest(cursor) ==
    /\ Running
    /\ WithinHarvests(cursor)
    /\ SetWorld(harvest(World, cursor, TRUE))
    /\ result' = [op |-> "mouse_up", err |-> None, moved |-> 0]
    /\ UNCHANGED <<outletVars, objectVars, ecsVars, fluidVars, netVars, bundleVars, frameVars>>

\* number of live structures that stand behind an empty slot: those whose index
\* a save renumbers
moved(strs) ==
    Cardinality({i \in 1..Len(strs) :
                    strs[i].dynamic # None /\ \E j \in 1..(i - 1) : strs[j].dynamic = None})

\* load_game: deserialize_game on the stored document
Load(json) ==
    LET r == deserialize_game(World, json)
    IN /\ Running
       /\ SetWorld(r.w)
       /\ result' = [op |-> "load", err |-> r.err, moved |-> moved(structures)]
       /\ drop_items_index' =
              IF r.err \in {None, Some("tool_belt not found")}
              THEN build_index(r.w.drop_items)
              ELSE drop_items_index
       /\ UNCHANGED <<outletVars, ecsVars, fluidVars, netVars, bundleVars, frameVars>>

\* save_game then load_game, the stored document suffering the defect in between
SaveLoad(defect) == Load(damage(serialize_game(World), defect))

\* wire lists of a stored document that serialize_game did not write
ForeignWires ==
    {<< <<p[1], p[2]>> >> : p \in {q \in (0..(MaxSlots - 1)) \X (0..(MaxSlots - 1)) : q[1] < q[2]}}

\* load_game on a document whose "power_wires" array was written by other hands
LoadForeign(ws) == Load([serialize_game(World) EXCEPT !.power_wires = Some(ws)])

Next ==
    \/ \E kind \in Kinds, cursor \in Tiles : Place(kind, cursor)
    \/ \E cursor \in Tiles : Harvest(cursor)
    \/ SaveLoad("none")

Spec == Init /\ [][Next]_vars

\* the game with loads of unfit documents as well
NextLoad ==
    \/ Next
    \/ \E defect \in Defects \ {"none"} : SaveLoad(defect)

SpecLoad == Init /\ [][NextLoad]_vars

NextForeign ==
    \/ Next
    \/ \E ws \in ForeignWires : LoadForeign(ws)

SpecForeign == Init /\ [][NextForeign]_vars

-----------------------------------------------------------------------------
(* The game on a row of tiles at the edge of the wire reaches *)

\* tiles at distance 3 (the default reach) and 4 of each other
ReachTiles == {Pos(0, 0), Pos(3, 0), Pos(4, 0)}

NextReach ==
    \/ \E kind \in Kinds, cursor \in ReachTiles : Place(kind, cursor)
    \/ \E cursor \in ReachTiles : Harvest(cursor)

SpecReach == Init /\ [][NextReach]_vars

-----------------------------------------------------------------------------
(* Dropping an item on the board: new_object *)

\* The board of the game: one row of land tiles and one of land with water, the
\* last column outside the bounds; no tile beyond.
BoardTiles == {Pos(x, y) : x \in 0..5, y \in 0..1}
WaterTiles == {Pos(1, 1), Pos(5, 1)}
Board == [p \in BoardTiles |-> [water |-> p \in WaterTiles]]
Bounds == Some([width |-> 5, height |-> 2])

\* FactorishState::tile_at: the cell of the tile, if the board has it
tile_at(tile) == IF tile \in DOMAIN Board THEN Some(Board[tile]) ELSE None

\* FactorishState::find_structure_tile: the first live structure at the tile
find_structure_tile(strs, tile) ==
    LET at == {i \in 1..Len(strs) : /\ strs[i].dynamic # None
                                    /\ Unwrap(strs[i].dynamic).position = tile}
    IN IF at = {} THEN None
       ELSE strs[CHOOSE i \in at : \A j \in at : i <= j].dynamic

\* hit_check: some live item lies less than an item's size away on both axes
hit_check(items, x, y) ==
    \E k \in 1..Len(items) :
        /\ items[k].item # None
        /\ Abs(x - Unwrap(items[k].item).x) < DROP_ITEM_SIZE_I
        /\ Abs(y - Unwrap(items[k].item).y) < DROP_ITEM_SIZE_I

\* new_object that puts every new item into a new slot at the end
new_object_push(w, index, pos, type_) ==
    LET cell == tile_at(pos)
        stru == find_structure_tile(w.structures, pos)
        item == DropItem_new(type_, pos.x, pos.y)
        same(ret) == [drop_items |-> w.drop_items, index |-> index, ret |-> ret]
    IN IF cell = None THEN same("OutOfMap")
       ELSE IF Unwrap(cell).water THEN same("OnWater")
       ELSE IF Bounds # None
               /\ ~(0 <= pos.x /\ pos.x < Unwrap(Bounds).width
                        /\ 0 <= pos.y /\ pos.y < Unwrap(Bounds).height)
            THEN same("OutOfMap")
       ELSE IF stru # None /\ ~movable(Unwrap(stru).kind) THEN same("BlockedByStructure")
       ELSE IF hit_check(w.drop_items, item.x, item.y) THEN same("BlockedByItem")
       ELSE LET items == Append(w.drop_items, [gen |-> 0, item |-> Some(item)])
            IN [drop_items |-> items,
                index |-> add_index(index, DropItemId(items, Len(items)), item.x, item.y),
                ret |-> "Ok"]

\* FactorishState::new_object: the drop items and their index after the call, and
\* what it returned
new_object(w, index, pos, type_) ==
    LET cell == tile_at(pos)
        stru == find_structure_tile(w.structures, pos)
        item == DropItem_new(type_, pos.x, pos.y)
        same(ret) == [drop_items |-> w.drop_items, index |-> index, ret |-> ret]
        empty == {k \in 1..Len(w.drop_items) : w.drop_items[k].item = None}
    IN IF cell = None THEN same("OutOfMap")
       ELSE IF Unwrap(cell).water THEN same("OnWater")
       ELSE IF Bounds # None
               /\ ~(0 <= pos.x /\ pos.x < Unwrap(Bounds).width
                        /\ 0 <= pos.y /\ pos.y < Unwrap(Bounds).height)
            THEN same("OutOfMap")
       ELSE IF stru # None /\ ~movable(Unwrap(stru).kind) THEN same("BlockedByStructure")
       ELSE IF hit_check(w.drop_items, item.x, item.y) THEN same("BlockedByItem")
       ELSE LET items ==
                    IF empty # {}
                    THEN LET k == CHOOSE i \in empty : \A j \in empty : i <= j
                         IN [w.drop_items EXCEPT ![k] = [gen |-> @.gen + 1,
                                                        item |-> Some(item)]]
                    ELSE Append(w.drop_items, [gen |-> 0, item |-> Some(item)])
                at == CHOOSE k \in 1..Len(items) : items[k].item = Some(item)
            IN [drop_items |-> items,
                index |-> add_index(index, DropItemId(items, at), item.x, item.y),
                ret |-> "Ok"]

\* the number of items dropped so far: every slot once, and once more for each reuse
Dropped(items) == Len(items) + SumGen(items, 1)

\* a structure or the scenario drops an item of the type at the tile
NewObject(pos, type_) ==
    LET r == new_object(World, drop_items_index, pos, type_)
    IN /\ Running
       /\ Dropped(drop_items) < MaxDrops
       /\ drop_items' = r.drop_items
       /\ drop_items_index' = r.index
       /\ result' = [op |-> "new_object", err |-> None, moved |-> 0, pos |-> pos,
                     ret |-> r.ret]
       /\ UNCHANGED <<structures, power_wires, power_networks, player, sim_time, harvested,
                      outletVars, ecsVars, fluidVars, netVars, bundleVars, frameVars>>

\* the tiles new_object is called for: free land, land that a structure or an item
\* may stand on, water, beyond the bounds, and off the board
ObjectTiles == {Pos(0, 0), Pos(1, 0), Pos(2, 0), Pos(1, 1), Pos(5, 0), Pos(5, 1), Pos(6, 0)}

\* the tiles the cursor visits in that game
ObjectCursors == {Pos(0, 0), Pos(1, 0), Pos(2, 0)}

NextObject ==
    \/ \E kind \in Kinds : Place(kind, Pos(0, 0))
    \/ \E cursor \in ObjectCursors : Harvest(cursor)
    \/ \E pos \in ObjectTiles : NewObject(pos, "CoalOre")

SpecObject == Init /\ [][NextObject]_vars

\* the game on those tiles, with loads of documents of a missing or an old version
NextGate ==
    \/ NextReach
    \/ \E defect \in {"old_version", "no_version"} : SaveLoad(defect)

SpecGate == Init /\ [][NextGate]_vars

-----------------------------------------------------------------------------
(* A StructureBundle on its own: the behaviour (dynamic) with its burner and   *)
(* factory components. What a receiver accepts is a set of item types; `taken` *)
(* counts the items it has accepted.                                           *)

BundleItems == {"CoalOre", "ElectPole"}

\* Structure::input: the trait's default refuses everything (accepts = {})
Structure_input(d, item) ==
    IF item \in d.accepts THEN [d |-> [d EXCEPT !.taken = @ + 1], ok |-> TRUE]
    ELSE [d |-> d, ok |-> FALSE]

\* Burner::input and Factory::input: the item goes to the component's inventory
\* when the component accepts its type
Component_input(c, item) ==
    IF item \in c.accepts THEN [c |-> [c EXCEPT !.taken = @ + 1], ok |-> TRUE]
    ELSE [c |-> c, ok |-> FALSE]

\* StructureBundle::input with the factory asked before the burner
StructureBundle_input_factory_first(b, item) ==
    LET r1 == Structure_input(b.dynamic, item) IN
    IF r1.ok THEN [b EXCEPT !.dynamic = r1.d,
                            !.call = Some([op |-> "input", arg |-> item, ret |-> "Ok"])]
    ELSE LET r2 == IF b.factory # None THEN Component_input(Unwrap(b.factory), item)
                   ELSE [c |-> None, ok |-> FALSE]
         IN IF r2.ok THEN [b EXCEPT !.factory = Some(r2.c),
                                    !.call = Some([op |-> "input", arg |-> item, ret |-> "Ok"])]
            ELSE LET r3 == IF b.burner # None THEN Component_input(Unwrap(b.burner), item)
                           ELSE [c |-> None, ok |-> FALSE]
                 IN IF r3.ok
                    THEN [b EXCEPT !.burner = Some(r3.c),
                                   !.call = Some([op |-> "input", arg |-> item, ret |-> "Ok"])]
                    ELSE [b EXCEPT !.call = Some([op |-> "input", arg |-> item, ret |-> "Err"])]

\* StructureBundle::input: dynamic.input, or else burner.input when there is a
\* burner, or else factory.input when there is a factory
StructureBundle_input(b, item) ==
    LET r1 == Structure_input(b.dynamic, item) IN
    IF r1.ok THEN [b EXCEPT !.dynamic = r1.d,
                            !.call = Some([op |-> "input", arg |-> item, ret |-> "Ok"])]
    ELSE LET r2 == IF b.burner # None THEN Component_input(Unwrap(b.burner), item)
                   ELSE [c |-> None, ok |-> FALSE]
         IN IF r2.ok THEN [b EXCEPT !.burner = Some(r2.c),
                                    !.call = Some([op |-> "input", arg |-> item, ret |-> "Ok"])]
            ELSE LET r3 == IF b.factory # None THEN Component_input(Unwrap(b.factory), item)
                           ELSE [c |-> None, ok |-> FALSE]
                 IN IF r3.ok
                    THEN [b EXCEPT !.factory = Some(r3.c),
                                   !.call = Some([op |-> "input", arg |-> item, ret |-> "Ok"])]
                    ELSE [b EXCEPT !.call = Some([op |-> "input", arg |-> item, ret |-> "Err"])]

\* Structure::inventory: the trait's default has none (has_inventory = FALSE)
Structure_inventory(d, is_input) ==
    IF d.has_inventory
    THEN Some([owner |-> "dynamic", is_input |-> is_input, items |-> d.taken])
    ELSE None

\* Burner's inventory, where its fuel goes
Burner_inventory(c) == Some([owner |-> "burner", is_input |-> TRUE, items |-> c.taken])

\* Factory::inventory: the input or the output inventory
Factory_inventory(c, is_input) ==
    Some([owner |-> "factory", is_input |-> is_input,
          items |-> IF is_input THEN c.taken ELSE 0])

\* StructureBundle::inventory / inventory_mut: the behaviour's inventory, else
\* the factory component's
StructureBundle_inventory(b, is_input) ==
    IF Structure_inventory(b.dynamic, is_input) # None
    THEN Structure_inventory(b.dynamic, is_input)
    ELSE IF b.factory # None THEN Factory_inventory(Unwrap(b.factory), is_input)
         ELSE None

\* the bundles a behaviour of the model starts with: any behaviour, with or
\* without a burner, with or without a factory, nothing accepted yet
Bundles ==
    {[dynamic |-> [accepts |-> da, has_inventory |-> di, taken |-> 0],
      burner |-> bu, factory |-> fa, call |-> None] :
        da \in SUBSET BundleItems, di \in BOOLEAN,
        bu \in {None} \cup {Some([accepts |-> a, taken |-> 0]) : a \in SUBSET BundleItems},
        fa \in {None} \cup {Some([accepts |-> a, taken |-> 0]) : a \in SUBSET BundleItems}}

InitBundle ==
    /\ InitWorld
    /\ ecs = NoEcs.ecs /\ connections = NoEcs.connections /\ fluid_links = NoEcs.fluid_links
    /\ pole_power = NoOutlet.pole_power /\ outlets = NoOutlet.outlets
    /\ bundle \in Bundles
    /\ boxes = NoFluid.boxes /\ flowlog = NoFluid.flowlog /\ nsteps = NoFluid.nsteps
    /\ boxes0 = NoFluid.boxes
    /\ net_wires = NoNet.net_wires /\ net_out = NoNet.net_out

\* the items the bundle has accepted so far
TakenBy(b) ==
    b.dynamic.taken + (IF b.burner = None THEN 0 ELSE Unwrap(b.burner).taken)
        + (IF b.factory = None THEN 0 ELSE Unwrap(b.factory).taken)

\* bundle.input(item)
Input(item) ==
    /\ TakenBy(bundle) < MaxInputs
    /\ bundle' = StructureBundle_input(bundle, item)
    /\ UNCHANGED <<outletVars, objectVars, ecsVars, worldVars, result, fluidVars, netVars, frameVars>>

\* bundle.inventory(is_input)
Inventory(is_input) ==
    /\ bundle' = [bundle EXCEPT !.call = Some([op |-> "inventory", arg |-> is_input,
                                               ret |-> StructureBundle_inventory(bundle, is_input)])]
    /\ UNCHANGED <<outletVars, objectVars, ecsVars, worldVars, result, fluidVars, netVars, frameVars>>

NextBundle ==
    \/ \E item \in BundleItems : Input(item)
    \/ \E is_input \in BOOLEAN : Inventory(is_input)

SpecBundle == InitBundle /\ [][NextBundle]_vars

-----------------------------------------------------------------------------
(* The game with the rotate key *)

\* on_key_down with key 'r' and no item selected, the cursor on a tile or off
\* the board
Rotate(cursor) ==
    LET r == rotate(World, cursor)
    IN /\ Running
       /\ SetWorld(r.w)
       /\ result' = [op |-> "rotate", err |-> None, moved |-> 0,
                     cursor |-> cursor, ret |-> r.ret]
       /\ UNCHANGED <<outletVars, objectVars, ecsVars, fluidVars, netVars, bundleVars, frameVars>>

NextRotate ==
    \/ NextReach
    \/ \E cursor \in {None} \cup {Some(t) : t \in ReachTiles} : Rotate(cursor)

\* FactorishState::new with belts and one electric pole in the player's inventory
InitRotate ==
    /\ structures = <<>>
    /\ power_wires = <<>>
    /\ power_networks = <<>>
    /\ player = [t \in ItemTypes |->
                    IF t = "TransportBelt" THEN MaxSlots - 1
                    ELSE IF t = "ElectPole" THEN 1 ELSE 0]
    /\ drop_items = InitialItems
    /\ drop_items_index = build_index(InitialItems)
    /\ sim_time = 0
    /\ harvested = {}
    /\ result = [op |-> "new", err |-> None, moved |-> 0]
    /\ frame = NoFrame
    /\ ecs = NoEcs.ecs /\ connections = NoEcs.connections /\ fluid_links = NoEcs.fluid_links
    /\ pole_power = NoOutlet.pole_power /\ outlets = NoOutlet.outlets
    /\ bundle = NoBundle
    /\ boxes = NoFluid.boxes /\ flowlog = NoFluid.flowlog /\ nsteps = NoFluid.nsteps
    /\ boxes0 = NoFluid.boxes
    /\ net_wires = NoNet.net_wires /\ net_out = NoNet.net_out

SpecRotate == InitRotate /\ [][NextRotate]_vars

-----------------------------------------------------------------------------
(* The game with pipes: structures with fluid boxes on a square of four tiles *)

PipeTiles == {Pos(0, 0), Pos(1, 0), Pos(0, 1), Pos(1, 1)}

\* FactorishState::new with the inventory cut down to pipes and one electric pole
InitPipes ==
    /\ structures = <<>>
    /\ power_wires = <<>>
    /\ power_networks = <<>>
    /\ player = [t \in ItemTypes |->
                    IF t = "Pipe" THEN MaxSlots
                    ELSE IF t = "ElectPole" THEN 1 ELSE 0]
    /\ drop_items = InitialItems
    /\ drop_items_index = build_index(InitialItems)
    /\ sim_time = 0
    /\ harvested = {}
    /\ result = [op |-> "new", err |-> None, moved |-> 0]
    /\ frame = NoFrame
    /\ ecs = NoEcs.ecs /\ connections = NoEcs.connections /\ fluid_links = NoEcs.fluid_links
    /\ pole_power = NoOutlet.pole_power /\ outlets = NoOutlet.outlets
    /\ bundle = NoBundle
    /\ boxes = NoFluid.boxes /\ flowlog = NoFluid.flowlog /\ nsteps = NoFluid.nsteps
    /\ boxes0 = NoFluid.boxes
    /\ net_wires = NoNet.net_wires /\ net_out = NoNet.net_out

NextPipes ==
    \/ \E kind \in Kinds, cursor \in PipeTiles : Place(kind, cursor)
    \/ \E cursor \in PipeTiles : Harvest(cursor)

SpecPipes == InitPipes /\ [][NextPipes]_vars

-----------------------------------------------------------------------------
(* FactorishState::simulate step by step: the loop over the arena, then the   *)
(* loop over the dropped items. frame.pc is the loop the call stands in,      *)
(* frame.i the index the loop is at, frame.calls the callbacks made so far.   *)

\* a simulate call that rebuilds the networks, one network for each wire
SimulateStart_rebuild ==
    /\ Running
    /\ frame.pc = "idle"
    /\ sim_time < MaxTicks
    /\ sim_time' = sim_time + 1
    /\ frame' = [pc |-> "structures", i |-> 0, calls |-> <<>>]
    /\ result' = [op |-> "simulate", err |-> None, moved |-> 0]
    /\ power_networks' = [k \in 1..Len(power_wires) |-> PowerNetwork(<<power_wires[k]>>)]
    /\ UNCHANGED <<outletVars, objectVars, ecsVars, structures, power_wires, player, drop_items,
                   harvested, fluidVars, netVars, bundleVars>>

\* the call enters: sim_time advances by delta_time = 1 and the arena is taken
\* out of the state for the loop over its slots
SimulateStart ==
    /\ Running
    /\ frame.pc = "idle"
    /\ sim_time < MaxTicks
    /\ sim_time' = sim_time + 1
    /\ frame' = [pc |-> "structures", i |-> 0, calls |-> <<>>]
    /\ result' = [op |-> "simulate", err |-> None, moved |-> 0]
    /\ UNCHANGED <<outletVars, objectVars, ecsVars, structures, power_wires, power_networks, player, drop_items,
                   harvested, fluidVars, netVars, bundleVars>>

\* the loop over the arena without the test for an occupant
SimulateStructure_every_slot ==
    /\ frame.pc = "structures"
    /\ frame' =
           IF frame.i < Len(structures)
           THEN LET center == Unwrap(StructureDynIter_new(structures, frame.i)).center
                IN [frame EXCEPT
                       !.i = @ + 1,
                       !.calls = Append(@, [fn |-> "frame_proc",
                                            id |-> StructureId(frame.i, center.gen)])]
           ELSE [frame EXCEPT !.pc = "drop_items", !.i = 0]
    /\ UNCHANGED <<outletVars, objectVars, ecsVars, worldVars, result, fluidVars, netVars, bundleVars>>

\* one pass of `for i in 0..structures.len()`: frame_proc on the occupant of slot
\* i when the slot has one (the frame_proc of Structure changes nothing and
\* returns FrameProcResult::None); past the last slot the loop is left
SimulateStructure ==
    /\ frame.pc = "structures"
    /\ frame' =
           IF frame.i < Len(structures)
           THEN LET center == Unwrap(StructureDynIter_new(structures, frame.i)).center
                IN [frame EXCEPT
                       !.i = @ + 1,
                       !.calls = IF center.dynamic # None
                                 THEN Append(@, [fn |-> "frame_proc",
                                                 id |-> StructureId(frame.i, center.gen)])
                                 ELSE @]
           ELSE [frame EXCEPT !.pc = "drop_items", !.i = 0]
    /\ UNCHANGED <<outletVars, objectVars, ecsVars, worldVars, result, fluidVars, netVars, bundleVars>>

\* one pass of `for i in 0..self.drop_items.len()`: an entry without an item is
\* skipped; the structure under the item is asked for its item_response, and that
\* of Structure is an error, so the item stays; past the last entry the arena
\* is put back and the call returns
SimulateDropItem ==
    /\ frame.pc = "drop_items"
    /\ frame' =
           IF frame.i < Len(drop_items)
           THEN [frame EXCEPT
                    !.i = @ + 1,
                    !.calls = IF drop_items[frame.i + 1].item # None
                              THEN Append(@, [fn |-> "drop_item",
                                              id |-> [id |-> frame.i,
                                                      gen |-> drop_items[frame.i + 1].gen]])
                              ELSE @]
           ELSE [frame EXCEPT !.pc = "idle", !.i = 0]
    /\ UNCHANGED <<outletVars, objectVars, ecsVars, worldVars, result, fluidVars, netVars, bundleVars>>

\* placements and harvests come between simulate calls, never inside one
NextFrame ==
    \/ frame.pc = "idle" /\ NextReach
    \/ SimulateStart
    \/ SimulateStructure
    \/ SimulateDropItem

SpecFrame == Init /\ [][NextFrame]_vars

-----------------------------------------------------------------------------
(* The fluid engine on its own: two entities, each with an InputFluidBox *)

FluidBoxIds == {1, 2}

Other(b) == CHOOSE o \in FluidBoxIds : o # b

\* the boxes entity b can start with: empty with no type yet, or of a type and
\* empty, partly filled or full; any valves; no filter or a Steam filter. Link 0
\* goes to the other entity, link 2 to an entity without an InputFluidBox.
StartBoxesOf(b, amounts) ==
    {FluidBox(ta[1], ta[2], v[1], v[2], <<Some(Other(b)), None, Some(0), None>>, f) :
        ta \in {<<None, 0>>} \cup ({Some(t) : t \in FluidType} \X amounts),
        v \in BOOLEAN \X BOOLEAN,
        f \in {None, Some("Steam")}}

StartBoxes(b) == StartBoxesOf(b, {0, 40 * Unit, 100 * Unit})

InitFluid ==
    /\ InitWorld
    /\ ecs = NoEcs.ecs /\ connections = NoEcs.connections /\ fluid_links = NoEcs.fluid_links
    /\ pole_power = NoOutlet.pole_power /\ outlets = NoOutlet.outlets
    /\ bundle = NoBundle
    /\ boxes \in {bs \in [FluidBoxIds -> UNION {StartBoxes(b) : b \in FluidBoxIds}] :
                     \A b \in FluidBoxIds : bs[b] \in StartBoxes(b)}
    /\ boxes0 = boxes
    /\ flowlog = NoLog
    /\ nsteps = 0
    /\ net_wires = NoNet.net_wires /\ net_out = NoNet.net_out

\* the links of box b that lead to an InputFluidBox
RealLinks(b) ==
    Cardinality({i \in 1..Len(boxes[b].connect_to) :
                    boxes[b].connect_to[i] # None
                        /\ Unwrap(boxes[b].connect_to[i]) \in DOMAIN boxes})

\* one call of FluidBox::simulate, on the box of entity b
Simulate(b) ==
    LET r == simulate(boxes, b)
        moves == Len(SelectSeq(r.log, LAMBDA e : e.outcome = "moved"))
    IN /\ nsteps + RealLinks(b) <= MaxFlowSteps
       /\ boxes' = r.boxes
       /\ flowlog' = [self |-> b, steps |-> r.log]
       /\ nsteps' = nsteps + moves
       /\ UNCHANGED <<outletVars, objectVars, ecsVars, boxes0, worldVars, result, netVars, bundleVars, frameVars>>

NextFluid == \E b \in FluidBoxIds : Simulate(b)

SpecFluid == InitFluid /\ [][NextFluid]_vars

\* The specs World with MaxEntities entities on different tiles of a square of four
\* tiles, each with an OutputFluidBox or without, and a new FluidBox for each
Entities == 1..MaxEntities

InitEcs ==
    /\ InitWorld
    /\ bundle = NoBundle
    /\ boxes = NoFluid.boxes /\ flowlog = NoFluid.flowlog /\ nsteps = NoFluid.nsteps
    /\ boxes0 = NoFluid.boxes
    /\ net_wires = NoNet.net_wires /\ net_out = NoNet.net_out
    /\ ecs \in {w \in [Entities -> [position : PipeTiles, ofb : BOOLEAN]] :
                   \A e1, e2 \in Entities : e1 # e2 => w[e1].position # w[e2].position}
    /\ connections = <<>>
    /\ fluid_links = [e \in Entities |-> NoLinks]
    /\ pole_power = NoOutlet.pole_power /\ outlets = NoOutlet.outlets

-----------------------------------------------------------------------------
(* ElectPole::power_outlet as a function of the stored power. Powers are whole
   numbers of kilojoules; the f64 operations min and - are exact on them. *)

\* f64::min
f64_min(a, b) == IF a <= b THEN a ELSE b

\* an outlet that hands out all that is demanded
ElectPole_power_outlet_all(power, demand) ==
    [power |-> power - demand, ret |-> Some(demand)]

\* ElectPole::power_outlet: the power left in the pole and the returned value
ElectPole_power_outlet(power, demand) ==
    LET supplied == f64_min(demand, power)
    IN [power |-> power - supplied, ret |-> Some(supplied)]

\* the powers a pole starts with: ElectPole::new gives 0, and a saved game any number
PolePowers == (-1)..MaxPower

\* a pole on its own, nothing called yet
InitOutlet ==
    /\ InitWorld
    /\ ecs = NoEcs.ecs /\ connections = NoEcs.connections /\ fluid_links = NoEcs.fluid_links
    /\ bundle = NoBundle
    /\ boxes = NoFluid.boxes /\ flowlog = NoFluid.flowlog /\ nsteps = NoFluid.nsteps
    /\ boxes0 = NoFluid.boxes
    /\ net_wires = NoNet.net_wires /\ net_out = NoNet.net_out
    /\ pole_power \in PolePowers
    /\ outlets = <<>>

\* one call of power_outlet on the pole
Outlet(demand) ==
    LET r == ElectPole_power_outlet(pole_power, demand)
    IN /\ Len(outlets) < MaxOutlets
       /\ pole_power' = r.power
       /\ outlets' = Append(outlets, [demand |-> demand, before |-> pole_power,
                                      ret |-> r.ret])
       /\ result' = [op |-> "power_outlet", err |-> None, moved |-> 0]
       /\ UNCHANGED <<objectVars, ecsVars, worldVars, fluidVars, netVars, bundleVars,
                      frameVars>>

NextOutlet == \E demand \in 0..MaxDemand : Outlet(demand)

SpecOutlet == InitOutlet /\ [][NextOutlet]_vars

\* FluidBox::list_connections on the world
ListConnections ==
    /\ result.op = "new"
    /\ connections' = list_connections(ecs)
    /\ result' = [op |-> "list_connections", err |-> None, moved |-> 0]
    /\ UNCHANGED <<outletVars, ecs, fluid_links, objectVars, worldVars, fluidVars, netVars, bundleVars,
                   frameVars>>

\* FluidBox::update_connections on the fluid box of the entity, with that list
UpdateConnections(entity) ==
    LET r == update_connections(fluid_links[entity], entity, connections)
    IN /\ result.op = "list_connections"
       /\ fluid_links' = [fluid_links EXCEPT ![entity] = r.connect_to]
       /\ result' = [op |-> "update_connections", err |-> r.err, moved |-> 0,
                     entity |-> entity]
       /\ UNCHANGED <<outletVars, ecs, connections, objectVars, worldVars, fluidVars, netVars,
                      bundleVars, frameVars>>

NextEcs == ListConnections \/ \E entity \in Entities : UpdateConnections(entity)

SpecEcs == InitEcs /\ [][NextEcs]_vars

\* Three boxes: entity 1 in the middle, linked to entities 2 (link 0) and 3 (link 1)
\* and to an entity without an InputFluidBox (link 2); entities 2 and 3 are linked
\* to entity 1 only.
StarIds == {1, 2, 3}

StarLinks(b) ==
    IF b = 1 THEN <<Some(2), Some(3), Some(0), None>>
    ELSE <<Some(1), None, None, None>>

\* the boxes entity b can start with, all valves open and no filter: empty with no
\* type yet, or of Water and partly filled or full; max_amount is what FluidBox::new
\* gives or, the field being public, half of it, and the amount is within it
StarBoxes(b) ==
    {[FluidBox(ta[1], ta[2], TRUE, TRUE, StarLinks(b), None) EXCEPT !.max_amount = m] :
        ta \in {<<None, 0>>, <<Some("Water"), 40 * Unit>>, <<Some("Water"), 100 * Unit>>},
        m \in {50 * Unit, 100 * Unit}}

InitStar ==
    /\ InitWorld
    /\ ecs = NoEcs.ecs /\ connections = NoEcs.connections /\ fluid_links = NoEcs.fluid_links
    /\ pole_power = NoOutlet.pole_power /\ outlets = NoOutlet.outlets
    /\ bundle = NoBundle
    /\ boxes \in {bs \in [StarIds -> UNION {StarBoxes(b) : b \in StarIds}] :
                     \A b \in StarIds : /\ bs[b] \in StarBoxes(b)
                                        /\ bs[b].amount <= bs[b].max_amount}
    /\ boxes0 = boxes
    /\ flowlog = NoLog
    /\ nsteps = 0
    /\ net_wires = NoNet.net_wires /\ net_out = NoNet.net_out

NextStar == \E b \in StarIds : Simulate(b)

SpecStar == InitStar /\ [][NextStar]_vars

-----------------------------------------------------------------------------
(* The fluid engine tick by tick: both boxes simulate in every tick *)

InitTick ==
    /\ InitWorld
    /\ ecs = NoEcs.ecs /\ connections = NoEcs.connections /\ fluid_links = NoEcs.fluid_links
    /\ pole_power = NoOutlet.pole_power /\ outlets = NoOutlet.outlets
    /\ bundle = NoBundle
    /\ boxes \in {bs \in [FluidBoxIds -> UNION {StartBoxesOf(b, {10 * Unit, 50 * Unit}) :
                                                   b \in FluidBoxIds}] :
                     \A b \in FluidBoxIds : bs[b] \in StartBoxesOf(b, {10 * Unit, 50 * Unit})}
    /\ boxes0 = boxes
    /\ flowlog = NoLog
    /\ nsteps = 0
    /\ net_wires = NoNet.net_wires /\ net_out = NoNet.net_out

\* one tick of FactorishState::simulate for the fluid boxes: the structures are
\* processed in slot order, and each runs FluidBox::simulate on its box
Tick ==
    LET r1 == simulate(boxes, 1)
        r2 == simulate(r1.boxes, 2)
        log == r1.log \o r2.log
    IN /\ nsteps + RealLinks(1) + RealLinks(2) <= MaxFlowSteps
       /\ boxes' = r2.boxes
       /\ flowlog' = [self |-> 2, steps |-> log]
       /\ nsteps' = nsteps + Len(SelectSeq(log, LAMBDA e : e.outcome = "moved"))
       /\ UNCHANGED <<outletVars, objectVars, ecsVars, boxes0, worldVars, result, netVars, bundleVars, frameVars>>

NextTick == Tick

SpecTick == InitTick /\ [][NextTick]_vars

-----------------------------------------------------------------------------
(* The network builder on its own: one wire list, then its networks *)

\* wires between two different handles of generation 0, in either direction
WireChoices ==
    {PowerWire(StructureId(p[1], 0), StructureId(p[2], 0)) :
        p \in {q \in (0..MaxHandle) \X (0..MaxHandle) : q[1] # q[2]}}

WireLists == UNION {[1..n -> WireChoices] : n \in 0..MaxWires}

InitNet ==
    /\ InitWorld
    /\ ecs = NoEcs.ecs /\ connections = NoEcs.connections /\ fluid_links = NoEcs.fluid_links
    /\ pole_power = NoOutlet.pole_power /\ outlets = NoOutlet.outlets
    /\ bundle = NoBundle
    /\ boxes = NoFluid.boxes /\ flowlog = NoFluid.flowlog /\ nsteps = NoFluid.nsteps
    /\ boxes0 = NoFluid.boxes
    /\ net_wires \in WireLists
    /\ net_out = None

\* power_networks = build_power_networks(view, wires)
BuildNetworks ==
    /\ net_out = None
    /\ net_out' = Some(build_power_networks(StructureDynIter_new_all(structures), net_wires))
    /\ UNCHANGED <<outletVars, objectVars, ecsVars, net_wires, worldVars, result, fluidVars, frameVars, bundleVars>>

NextNet == BuildNetworks

SpecNet == InitNet /\ [][NextNet]_vars

-----------------------------------------------------------------------------
(* Properties of the network builder *)

Endpoints(wires) == {wires[i][1] : i \in 1..Len(wires)} \cup {wires[i][2] : i \in 1..Len(wires)}

\* the handles that a path of wires connects with a handle of the set
RECURSIVE Reach(_, _)
Reach(wires, set) ==
    LET more == set \cup {wires[i][2] : i \in {j \in 1..Len(wires) : wires[j][1] \in set}}
                    \cup {wires[i][1] : i \in {j \in 1..Len(wires) : wires[j][2] \in set}}
    IN IF more = set THEN set ELSE Reach(wires, more)

Count(wires, w) == Cardinality({i \in 1..Len(wires) : wires[i] = w})

\* C6 (power network partition): for every wire list, in the networks built from it
\* every end of a wire is a member of exactly one network, two handles are members
\* of the same network exactly when a path of wires connects them, every wire is in
\* the network of its ends and in no other, as often as it is in the list, and a
\* handle that no wire touches is a member of none.
C6_NetworkPartition ==
    net_out # None =>
        LET nets == Unwrap(net_out)
            ends == Endpoints(net_wires)
            of(h) == {k \in 1..Len(nets) : h \in nets[k].member_handles}
        IN /\ \A h \in ends : Cardinality(of(h)) = 1
           /\ \A h1, h2 \in ends : (of(h1) = of(h2)) <=> (h2 \in Reach(net_wires, {h1}))
           /\ \A k \in 1..Len(nets) :
                  /\ nets[k].member_handles \subseteq ends
                  /\ nets[k].member_handles # {}
                  /\ \A w \in WireChoices :
                         Count(nets[k].wires, w) =
                             IF w[1] \in nets[k].member_handles /\ w[2] \in nets[k].member_handles
                             THEN Count(net_wires, w) ELSE 0

\* the networks of a list whose last wire bridges two components found before it
C6_Witness ==
    /\ net_out # None
    /\ Len(net_wires) = 3
    /\ Len(Unwrap(net_out)) = 1
    /\ Endpoints(SubSeq(net_wires, 1, 1)) \cap Endpoints(SubSeq(net_wires, 2, 2)) = {}

-----------------------------------------------------------------------------
(* Properties of the arena *)

\* every handle a caller can hold: indices up to one past the arena, generations
\* up to one past the newest
Handles == [id : 0..MaxSlots, gen : 0..(MaxHarvests + 1)]

\* the handle names a slot that exists, is occupied and has the handle's generation
Valid(strs, h) ==
    /\ h.id < Len(strs)
    /\ strs[h.id + 1].dynamic # None
    /\ strs[h.id + 1].gen = h.gen

Resolved(strs, h) == IF Valid(strs, h) THEN strs[h.id + 1].dynamic ELSE None

\* C1 (handle validity): in every reachable arena and for every handle, get_structure
\* and StructureDynIter::get return the slot's occupant exactly when the slot exists,
\* is occupied and carries the handle's generation, and none otherwise; a split view
\* does the same for every slot but its centre; the handle of a harvested structure
\* resolves to none ever after, whatever re-occupies its slot.
C1_HandleValidity ==
    \A h \in Handles :
        /\ get_structure(structures, h) = Resolved(structures, h)
        /\ StructureDynIter_get(StructureDynIter_new_all(structures), h)
               = Resolved(structures, h)
        /\ \A i \in 0..(Len(structures) - 1) :
               h.id # i =>
                   StructureDynIter_get(Unwrap(StructureDynIter_new(structures, i)).others, h)
                       = Resolved(structures, h)
        /\ h \in harvested =>
               /\ get_structure(structures, h) = None
               /\ StructureDynIter_get(StructureDynIter_new_all(structures), h) = None

\* a harvested structure's slot is occupied again, and the arena has another slot
C1_Witness ==
    /\ Len(structures) >= 2
    /\ \E h \in harvested : h.id < Len(structures) /\ structures[h.id + 1].dynamic # None

\* the indices of the occupied slots other than i, ascending
OtherLive(strs, i) ==
    SeqFilterIdx(Len(strs), [j \in 1..Len(strs) |-> j - 1 # i /\ strs[j].dynamic # None], 1)

\* C2 (split-borrow exclusivity): for every index i below the arena's length,
\* StructureDynIter::new yields slot i as the centre and a view of the others in which
\* no handle with index i resolves, and whose iterations (dyn_iter_id, dyn_iter,
\* dyn_iter_mut) yield exactly the other occupied slots, once each, in ascending index
\* order, each with the handle (its arena index, its generation).
C2_SplitBorrow ==
    \A i \in 0..(Len(structures) - 1) :
        LET r == Unwrap(StructureDynIter_new(structures, i))
            want == OtherLive(structures, i)
            ids == StructureDynIter_dyn_iter_id(r.others)
            all == StructureDynIter_dyn_iter(r.others)
        IN /\ StructureDynIter_new(structures, i) # None
           /\ r.center = structures[i + 1]
           /\ \A g \in 0..(MaxHarvests + 1) :
                  StructureDynIter_get(r.others, StructureId(i, g)) = None
           /\ Len(ids) = Len(want)
           /\ Len(all) = Len(want)
           /\ \A k \in 1..Len(want) :
                  /\ ids[k].id = StructureId(want[k] - 1, structures[want[k]].gen)
                  /\ ids[k].s = Unwrap(structures[want[k]].dynamic)
                  /\ all[k] = Unwrap(structures[want[k]].dynamic)

\* the arena has three slots, the middle one occupied, an empty one and an occupied
\* one around it
C2_Witness ==
    /\ Len(structures) = 3
    /\ structures[2].dynamic # None
    /\ \E j \in {1, 3} : structures[j].dynamic = None
    /\ \E j \in {1, 3} : structures[j].dynamic # None

-----------------------------------------------------------------------------
(* Properties of the wires *)

\* C7 (no dangling wires): after any sequence of placements and harvests every wire's
\* two ends resolve to live structures, and no wire has the handle of a harvested
\* structure as an end.
C7_NoDanglingWires ==
    \A k \in 1..Len(power_wires) :
        /\ Valid(structures, power_wires[k][1])
        /\ Valid(structures, power_wires[k][2])
        /\ power_wires[k][1] \notin harvested
        /\ power_wires[k][2] \notin harvested

\* a wired structure has been harvested, its slot is empty, and a wire is left
C7_Witness ==
    /\ power_wires # <<>>
    /\ \E h \in harvested : h.id < Len(structures) /\ structures[h.id + 1].dynamic = None

-----------------------------------------------------------------------------
(* Properties of save and load *)

\* the number of occupied slots before slot i: its index in a save
CompactIndex(strs, i) == Cardinality({j \in 0..(i - 1) : strs[j + 1].dynamic # None})

\* some wire joins the handles a and b, in either direction
Joined(wires, a, b) == \E k \in 1..Len(wires) : wires[k] = <<a, b>> \/ wires[k] = <<b, a>>

\* the arena after is the arena before without its empty slots, kinds and positions
\* kept in order, and its wires join two structures exactly when the wires before
\* joined the structures they were
SameWorld(before, wires_before, after, wires_after) ==
    LET live == OtherLive(before, 0 - 1)
        handle(k) == StructureId(live[k] - 1, before[live[k]].gen)
        loaded(k) == StructureId(CompactIndex(before, live[k] - 1), 0)
    IN /\ Len(after) = Len(live)
       /\ \A k \in 1..Len(live) :
              /\ after[k].dynamic # None
              /\ after[k].gen = 0
              /\ Unwrap(after[k].dynamic).kind = Unwrap(before[live[k]].dynamic).kind
              /\ Unwrap(after[k].dynamic).position = Unwrap(before[live[k]].dynamic).position
              /\ loaded(k) = StructureId(k - 1, 0)
       /\ \A k1, k2 \in 1..Len(live) :
              Joined(wires_before, handle(k1), handle(k2))
                  <=> Joined(wires_after, loaded(k1), loaded(k2))
       /\ \A k \in 1..Len(wires_after) :
              \E k1, k2 \in 1..Len(live) : wires_after[k] = <<loaded(k1), loaded(k2)>>

\* C8 (serialization round-trip): whenever the game saves and loads its own document
\* successfully, the loaded arena holds the structures that were live, in their
\* arena order, and two loaded structures are joined by a wire exactly when the
\* structures they were saved from were joined, under the mapping from a handle to
\* its compacted save index.
C8_RoundTrip ==
    [][(result'.op = "load" /\ result'.err = None)
           => SameWorld(structures, power_wires, structures', power_wires')]_vars

\* a load succeeded on a save that renumbered a wired structure
C8_Witness ==
    /\ result.op = "load"
    /\ result.err = None
    /\ result.moved >= 1
    /\ power_wires # <<>>

\* C9 (persisted-state remapping): after a successful load the arena has no empty
\* slot, every slot has generation 0, and both ends of every wire are handles
\* (index, 0) that resolve to a loaded structure.
C9_LoadedWiresResolve ==
    (result.op = "load" /\ result.err = None) =>
        /\ \A i \in 1..Len(structures) : structures[i].dynamic # None /\ structures[i].gen = 0
        /\ \A k \in 1..Len(power_wires) :
               /\ power_wires[k][1].gen = 0 /\ Valid(structures, power_wires[k][1])
               /\ power_wires[k][2].gen = 0 /\ Valid(structures, power_wires[k][2])

\* C10 (load is all-or-nothing): a load that returns an error leaves the arena, the
\* drop items, the wires, the networks, the player and sim_time as they were.
C10_LoadAllOrNothing ==
    [][(result'.op = "load" /\ result'.err # None)
           => UNCHANGED <<structures, drop_items, power_wires, power_networks,
                          player, sim_time>>]_vars

-----------------------------------------------------------------------------
(* Properties of the fluid engine *)

TotalAmount(bs) == bs[1].amount + bs[2].amount

\* the last simulate call reached the flow step of its link to the other box, and
\* this is what became of it
LastStep(outcome) ==
    /\ flowlog.steps # <<>>
    /\ flowlog.steps[1].outcome = outcome
    /\ flowlog.steps[1].pressure # 0

\* C3 (fluid conservation): a flow step leaves the sum of the two amounts unchanged,
\* whether it transfers or is abandoned, so two boxes linked to each other hold the
\* same total after any number of simulate calls.
C3_Conservation == TotalAmount(boxes) = TotalAmount(boxes0)

\* several transfers have happened, the last call made one, and amounts have changed
C3_Witness ==
    /\ nsteps >= 2
    /\ LastStep("moved")
    /\ boxes[1].amount # boxes0[1].amount

\* C4 (filter enforcement): a box that gains amount in a flow step either has no
\* filter or gains from a box whose type is that filter; a box whose filter is Steam
\* gains nothing from a box of Water, whichever of the two is simulated.
C4_FilterEnforced ==
    [][\A r \in FluidBoxIds :
           boxes'[r].amount > boxes[r].amount =>
               \/ boxes[r].filter = None
               \/ boxes[Other(r)].type_ = boxes[r].filter]_vars

\* a box of Water pushed against an emptier box with a Steam filter, all valves
\* open, and the step was abandoned
C4_Witness ==
    /\ LastStep("blocked")
    /\ flowlog.steps[1].flow < 0
    /\ boxes[flowlog.self].type_ = Some("Water")
    /\ boxes[flowlog.self].output_enable
    /\ boxes[Other(flowlog.self)].filter = Some("Steam")
    /\ boxes[Other(flowlog.self)].input_enable

\* box 1 started full and box 2 empty, box 1 may give and box 2 may receive
EqualizeStart ==
    /\ boxes0[1].amount = 100 * Unit
    /\ boxes0[2].amount = 0
    /\ boxes0[1].output_enable
    /\ boxes0[2].input_enable

\* C5 (monotonic equalization): from A = 100, B = 0 with A allowed to give and B to
\* receive, in every simulate call of either box A's amount does not increase, B's
\* does not decrease, A stays at least B, and what moves is at most the pressure.
C5_Equalization ==
    [][EqualizeStart =>
           /\ boxes'[1].amount <= boxes[1].amount
           /\ boxes'[2].amount >= boxes[2].amount
           /\ boxes'[1].amount >= boxes'[2].amount
           /\ Abs(boxes'[1].amount - boxes[1].amount)
                  <= Abs(boxes[2].amount - boxes[1].amount)]_vars

\* from that start, as many transfers as the bound allows have happened, the last
\* of them pulled by box 2
C5_Witness ==
    /\ EqualizeStart
    /\ nsteps = MaxFlowSteps
    /\ LastStep("moved")
    /\ flowlog.self = 2
    /\ boxes[2].amount > 0
    /\ boxes[1].amount > boxes[2].amount

-----------------------------------------------------------------------------
(* Properties of placement and harvest *)

\* C11 (placement onto an occupied tile is rejected): a placement on a tile where a
\* structure stands leaves the arena, the wires, the networks and the player's
\* inventory as they were.
C11_OccupiedTileRejected ==
    [][\A kind \in Kinds, cursor \in Tiles :
           (Place(kind, cursor) /\ occupants(structures, cursor) # {})
               => UNCHANGED <<structures, power_wires, power_networks, player>>]_vars

\* the handles of the occupied slots
LiveHandles(strs) ==
    {StructureId(i, strs[i + 1].gen) : i \in {j \in 0..(Len(strs) - 1) : strs[j + 1].dynamic # None}}

\* the occupied slot where a structure of the kind stands at the position, if any
StandsAt(strs, kind, pos) ==
    {h \in LiveHandles(strs) :
        /\ Unwrap(strs[h.id + 1].dynamic).kind = kind
        /\ Unwrap(strs[h.id + 1].dynamic).position = pos}

\* C12 (pole and engine scenario): with an electric pole at (0,0) as the only
\* structure, placing a steam engine at (3,0) leaves exactly one wire, between the
\* two, and exactly one network, which has that one wire and both as members.
C12_PoleEngineWire ==
    [][(/\ Place("SteamEngine", Pos(3, 0))
        /\ LiveHandles(structures) = StandsAt(structures, "ElectPole", Pos(0, 0))
        /\ LiveHandles(structures) # {})
           => \E pole \in StandsAt(structures', "ElectPole", Pos(0, 0)),
                 engine \in StandsAt(structures', "SteamEngine", Pos(3, 0)) :
                  /\ Len(power_wires') = 1
                  /\ Joined(power_wires', pole, engine)
                  /\ Len(power_networks') = 1
                  /\ Len(power_networks'[1].wires) = 1
                  /\ power_networks'[1].member_handles = {pole, engine}]_vars

\* the pole at (0,0) and the engine at (3,0) are the only structures, and the one
\* wire was made from the engine, the later of the two, to the pole
C12_Witness ==
    \E pole \in StandsAt(structures, "ElectPole", Pos(0, 0)),
       engine \in StandsAt(structures, "SteamEngine", Pos(3, 0)) :
        /\ LiveHandles(structures) = {pole, engine}
        /\ power_wires = <<PowerWire(engine, pole)>>

-----------------------------------------------------------------------------
(* Properties of the fluid engine, tick by tick *)

\* two boxes of the same type, all valves open, no filter, 50 in box 1 and 10 in box 2
FiftyTen(bs) ==
    /\ bs[1].amount = 50 * Unit /\ bs[2].amount = 10 * Unit
    /\ bs[1].type_ = bs[2].type_
    /\ \A b \in FluidBoxIds :
           bs[b].input_enable /\ bs[b].output_enable /\ bs[b].filter = None

-----------------------------------------------------------------------------
(* Properties of the pair access *)

\* the occupant of slot i with its handle, or none for an empty slot
Tagged(strs, i) ==
    IF Valid(strs, StructureId(i, strs[i + 1].gen))
    THEN Some([id |-> StructureId(i, strs[i + 1].gen), s |-> Unwrap(strs[i + 1].dynamic)])
    ELSE None

\* C14 (pair access): for slots a and b below the arena's length, get_pair_mut(a, b)
\* is (none, none) when a = b, and otherwise the occupant of a with the handle
\* (a, generation of a) and the occupant of b with the handle (b, generation of b),
\* in that order, none standing for an empty slot.
C14_PairAccess ==
    \A a, b \in 0..(Len(structures) - 1) :
        get_pair_mut(structures, a, b) =
            IF a = b THEN <<None, None>>
            ELSE <<Tagged(structures, a), Tagged(structures, b)>>

\* the arena has an occupied slot behind an empty one with a raised generation
C14_Witness ==
    /\ Len(structures) >= 2
    /\ \E a, b \in 0..(Len(structures) - 1) :
           /\ a < b
           /\ structures[a + 1].dynamic = None /\ structures[a + 1].gen > 0
           /\ structures[b + 1].dynamic # None

-----------------------------------------------------------------------------
(* Properties of the tick *)

\* the slots the running simulate call has passed in its loop over the arena
Passed == IF frame.pc = "structures" THEN frame.i ELSE Len(structures)

\* the positions in frame.calls of the frame_proc calls for slot k
FrameProcs(k) ==
    {p \in 1..Len(frame.calls) :
        frame.calls[p].fn = "frame_proc" /\ frame.calls[p].id.id = k}

\* C15 (tick ordering): within one simulate call, frame_proc is invoked on the live
\* structures in ascending slot order, exactly once per live slot and never for an
\* empty slot, and no dropped item is handled before the loop over the arena has
\* finished.
C15_TickOrdering ==
    result.op = "simulate" =>
        /\ \A k \in 0..(Len(structures) - 1) :
               Cardinality(FrameProcs(k)) =
                   IF k < Passed /\ structures[k + 1].dynamic # None THEN 1 ELSE 0
        /\ \A p \in 1..Len(frame.calls) :
               frame.calls[p].fn = "frame_proc" =>
                   /\ frame.calls[p].id.id < Len(structures)
                   /\ frame.calls[p].id.gen = structures[frame.calls[p].id.id + 1].gen
        /\ \A p, q \in 1..Len(frame.calls) :
               (p < q /\ frame.calls[q].fn = "frame_proc") =>
                   /\ frame.calls[p].fn = "frame_proc"
                   /\ frame.calls[p].id.id < frame.calls[q].id.id
        /\ (\E p \in 1..Len(frame.calls) : frame.calls[p].fn = "drop_item") =>
               frame.pc # "structures"

\* a simulate call has returned over an arena with an empty slot between two
\* live ones and a dropped item
C15_Witness ==
    /\ result.op = "simulate" /\ frame.pc = "idle"
    /\ Len(structures) = 3
    /\ structures[1].dynamic # None /\ structures[2].dynamic = None
    /\ structures[3].dynamic # None
    /\ Len(frame.calls) = 3 /\ frame.calls[3].fn = "drop_item"

-----------------------------------------------------------------------------
(* Properties of the network rebuild *)

\* C16 (synchronous network rebuild): whenever a placement, a harvest or a load has
\* returned successfully, power_networks equals build_power_networks applied to the
\* arena and the wire list as they are at return.
C16_SynchronousRebuild ==
    (result.op \in {"mouse_up", "load"} /\ result.err = None) =>
        power_networks =
            build_power_networks(StructureDynIter_new_all(structures), power_wires)

\* a call has returned with wires in the list, after a structure was harvested
C16_Witness ==
    /\ result.op \in {"mouse_up", "load"} /\ result.err = None
    /\ power_wires # <<>> /\ power_networks # <<>>
    /\ harvested # {}

\* a step of a simulate call
SimulateStep == SimulateStart \/ SimulateStructure \/ SimulateDropItem

\* C17 (static power partition): a simulate call, which places and removes no
\* structure, leaves the wire list power_wires and the network list power_networks
\* exactly as they were before the call.
C17_TickKeepsPartition ==
    [][SimulateStep => UNCHANGED <<power_wires, power_networks>>]_vars

\* a simulate call has returned in a world with a network of two wires
C17_Witness ==
    /\ result.op = "simulate" /\ frame.pc = "idle" /\ sim_time >= 1
    /\ \E n \in 1..Len(power_networks) : Len(power_networks[n].wires) >= 2

-----------------------------------------------------------------------------
(* Properties of the slots under harvest and placement *)

\* two arena entries hold the same structure (its fluid links, which follow the
\* neighbourhood, apart) or are both empty
SameOccupant(e1, e2) ==
    IF e1.dynamic = None \/ e2.dynamic = None THEN e1.dynamic = e2.dynamic
    ELSE [Unwrap(e1.dynamic) EXCEPT !.connect_to = NoLinks]
             = [Unwrap(e2.dynamic) EXCEPT !.connect_to = NoLinks]

\* C18 (harvest keeps the slots): harvesting the structure in slot i empties slot i
\* and increases that slot's generation by exactly 1, while the arena length and the
\* generation and occupant of every other slot are unchanged.
C18_HarvestKeepsSlots ==
    [][\A cursor \in ReachTiles, i \in 0..(MaxSlots - 1) :
           (i \in occupants(structures, cursor) /\ Harvest(cursor)) =>
               /\ Len(structures') = Len(structures)
               /\ structures'[i + 1].dynamic = None
               /\ structures'[i + 1].gen = structures[i + 1].gen + 1
               /\ \A k \in (0..(Len(structures) - 1)) \ {i} :
                      /\ structures'[k + 1].gen = structures[k + 1].gen
                      /\ SameOccupant(structures'[k + 1], structures[k + 1])]_vars

\* a harvest has emptied a slot in front of a structure that stays in its slot
C18_Witness ==
    /\ result.op = "mouse_up" /\ harvested # {}
    /\ \E h \in harvested :
           /\ h.id < Len(structures)
           /\ structures[h.id + 1].dynamic = None
           /\ structures[h.id + 1].gen = h.gen + 1
           /\ \E k \in (h.id + 1)..(Len(structures) - 1) : structures[k + 1].dynamic # None

\* the empty slots of an arena
EmptySlots(strs) == {i \in 0..(Len(strs) - 1) : strs[i + 1].dynamic = None}

\* a placement of `kind` at the cursor that put the new structure into slot j of
\* arena `before` with generation g, and changed no other slot
AllocatedAt(before, kind, cursor, j, g) ==
    /\ structures'[j + 1].gen = g
    /\ SameOccupant(structures'[j + 1], [gen |-> g, dynamic |-> Some(new_structure(kind, cursor))])
    /\ get_structure(structures', StructureId(j, g)) = structures'[j + 1].dynamic
    /\ \A k \in (0..(Len(structures) - 1)) \ {j} :
           /\ structures'[k + 1].gen = structures[k + 1].gen
           /\ SameOccupant(structures'[k + 1], structures[k + 1])

\* C19 (slot allocation on placement): the new structure is stored in the
\* lowest-index empty slot, keeping that slot's current generation, or, when no slot
\* is empty, in a new slot appended at index len with generation 0; its handle
\* resolves to the new structure once placement returns, and no other slot changes
\* occupant or generation. The empty slots are those at the moment the slot is
\* chosen, after the tile under the cursor was cleared.
C19_SlotAllocation ==
    [][\A kind \in Kinds, cursor \in Tiles :
           Place(kind, cursor) =>
               LET before == harvest(World, cursor, ~movable(kind)).structures
                   empty == EmptySlots(before)
               IN IF empty # {}
                  THEN LET j == CHOOSE i \in empty : \A k \in empty : i <= k
                       IN /\ Len(structures') = Len(structures)
                          /\ AllocatedAt(before, kind, cursor, j, before[j + 1].gen)
                  ELSE /\ Len(structures') = Len(structures) + 1
                       /\ AllocatedAt(before, kind, cursor, Len(structures), 0)]_vars

-----------------------------------------------------------------------------
(* Properties of the wires a placement makes *)

\* the handle of the occupant of slot i
HandleOf(strs, i) == StructureId(i, strs[i + 1].gen)

\* a wire of the list joins the two handles, in either direction
Wired(wires, h1, h2) ==
    \E k \in 1..Len(wires) : {wires[k][1], wires[k][2]} = {h1, h2}

\* one of the two structures is a power sink and the other a power source, and
\* they stand within the smaller of their wire reaches (Chebyshev distance)
MeshCondition(n, s) ==
    /\ \/ power_sink(n.kind) /\ power_source(s.kind)
       \/ power_source(n.kind) /\ power_sink(s.kind)
    /\ Max(Abs(n.position.x - s.position.x), Abs(n.position.y - s.position.y))
           <= Min(wire_reach(n.kind), wire_reach(s.kind))

\* C20 (wire mesh formation): when a structure N is placed, for every other live
\* structure S the wire list afterwards contains a wire between N and S if and only
\* if one of them is a power sink and the other a power source and their Chebyshev
\* distance is at most min(N.wire_reach, S.wire_reach); and the wires between the
\* other structures are untouched.
C20_WireMesh ==
    [][\A kind \in Kinds, cursor \in ReachTiles :
           (player[kind] >= 1 /\ Place(kind, cursor)) =>
               \A n \in occupants(structures', cursor) :
                   /\ \A s \in (0..(Len(structures') - 1)) \ {n} :
                          structures'[s + 1].dynamic # None =>
                              (Wired(power_wires', HandleOf(structures', n),
                                     HandleOf(structures', s))
                                  <=> MeshCondition(Unwrap(structures'[n + 1].dynamic),
                                                    Unwrap(structures'[s + 1].dynamic)))
                   /\ SelectSeq(power_wires',
                                LAMBDA w : HandleOf(structures', n) \notin {w[1], w[2]})
                          = SelectSeq(power_wires,
                                      LAMBDA w : /\ HandleOf(structures', n) \notin {w[1], w[2]}
                                                 /\ Valid(structures', w[1])
                                                 /\ Valid(structures', w[2]))]_vars

\* a structure is wired to two others after a placement, one of them farther
\* away than the other
C20_Witness ==
    /\ result.op = "mouse_up"
    /\ \E n, s, t \in LiveHandles(structures) :
           /\ s # t /\ n # s /\ n # t
           /\ Wired(power_wires, n, s) /\ Wired(power_wires, n, t)
           /\ distance(Unwrap(get_structure(structures, n)).position,
                       Unwrap(get_structure(structures, s)).position)
                  < distance(Unwrap(get_structure(structures, n)).position,
                             Unwrap(get_structure(structures, t)).position)

-----------------------------------------------------------------------------
(* Properties of the wire list as a set of unordered edges *)

\* C21 (wire list well-formedness): after any sequence of placements, harvests and
\* loads, no wire of power_wires has the same handle at both ends, and no two entries
\* of power_wires join the same unordered pair of handles.
C21_WiresWellFormed ==
    /\ \A k \in 1..Len(power_wires) : power_wires[k][1] # power_wires[k][2]
    /\ \A k, l \in 1..Len(power_wires) :
           k # l => {power_wires[k][1], power_wires[k][2]}
                        # {power_wires[l][1], power_wires[l][2]}

-----------------------------------------------------------------------------
(* Properties of the fluid links *)

\* the live slots whose occupant has fluid boxes
FluidSlots(strs) ==
    {i \in 0..(Len(strs) - 1) :
        strs[i + 1].dynamic # None /\ has_fluid_box(Unwrap(strs[i + 1].dynamic).kind)}

\* the tile in direction d of a position: 0 = west, 1 = north, 2 = east, 3 = south
Toward(pos, d) ==
    CASE d = 0 -> Pos(pos.x - 1, pos.y)
      [] d = 1 -> Pos(pos.x, pos.y - 1)
      [] d = 2 -> Pos(pos.x + 1, pos.y)
      [] d = 3 -> Pos(pos.x, pos.y + 1)

\* link d of the fluid boxes of the occupant of slot i
LinkOf(strs, i, d) == Unwrap(strs[i + 1].dynamic).connect_to[d + 1]

\* C22 (fluid link maintenance): after any sequence of placements and harvests, for
\* any two live structures A and B with fluid boxes on orthogonally adjacent tiles,
\* B in direction d of A, A holds B's current handle in link d and B holds A's current
\* handle in link (d + 2) mod 4; and no link of a live structure holds the handle of a
\* harvested structure.
C22_FluidLinks ==
    /\ \A a, b \in FluidSlots(structures), d \in 0..3 :
           Unwrap(structures[b + 1].dynamic).position
               = Toward(Unwrap(structures[a + 1].dynamic).position, d) =>
               /\ LinkOf(structures, a, d) = Some(StructureId(b, structures[b + 1].gen))
               /\ LinkOf(structures, b, (d + 2) % 4)
                      = Some(StructureId(a, structures[a + 1].gen))
    /\ \A a \in FluidSlots(structures), d \in 0..3 :
           LinkOf(structures, a, d) # None =>
               Unwrap(LinkOf(structures, a, d)) \notin harvested

\* after a harvest, a pipe has a pipe to its east and a pipe to its south
C22_Witness ==
    /\ harvested # {}
    /\ \E a, b, c \in FluidSlots(structures) :
           /\ Unwrap(structures[b + 1].dynamic).position
                  = Toward(Unwrap(structures[a + 1].dynamic).position, 2)
           /\ Unwrap(structures[c + 1].dynamic).position
                  = Toward(Unwrap(structures[a + 1].dynamic).position, 3)

-----------------------------------------------------------------------------
(* Properties of the rotate key *)

\* the structures standing on the cursor tile of the last rotate call
UnderCursor ==
    IF result.cursor = None THEN {}
    ELSE {Unwrap(structures[i + 1].dynamic) : i \in occupants(structures, Unwrap(result.cursor))}

\* C23 (typed rotate errors): rotating when a structure is under the cursor but it
\* neither implements rotate nor has a rotation component yields NotSupported,
\* whereas rotating when no structure is under the cursor yields NotFound.
C23_TypedRotateErrors ==
    result.op = "rotate" =>
        /\ (\E s \in UnderCursor : Structure_rotate(s) # "Ok" /\ s.rotation = None)
               => result.ret = "NotSupported"
        /\ UnderCursor = {} => result.ret = "NotFound"

-----------------------------------------------------------------------------
(* Properties of the structure bundle *)

\* the receivers of a bundle in the order of the chain, each with what it accepts
\* and the number of items it has taken
Receivers(b) ==
    <<[name |-> "dynamic", accepts |-> b.dynamic.accepts, taken |-> b.dynamic.taken]>>
        \o (IF b.burner = None THEN <<>>
            ELSE <<[name |-> "burner", accepts |-> Unwrap(b.burner).accepts,
                    taken |-> Unwrap(b.burner).taken]>>)
        \o (IF b.factory = None THEN <<>>
            ELSE <<[name |-> "factory", accepts |-> Unwrap(b.factory).accepts,
                    taken |-> Unwrap(b.factory).taken]>>)

\* C24 (input precedence chain): StructureBundle::input offers the item first to the
\* behaviour, then, only if that refused, to the burner if present, then, only if
\* that refused too, to the factory if present; the item is accepted by at most one
\* of them, namely the first that takes it, and an error is returned only when every
\* present receiver refused.
C24_InputChain ==
    [][\A item \in BundleItems :
           Input(item) =>
               LET before == Receivers(bundle)
                   after == Receivers(bundle')
                   willing == {k \in 1..Len(before) : item \in before[k].accepts}
               IN /\ Len(after) = Len(before)
                  /\ Unwrap(bundle'.call).ret = IF willing = {} THEN "Err" ELSE "Ok"
                  /\ \A k \in 1..Len(before) :
                         after[k].taken =
                             IF k \in willing /\ \A j \in willing : k <= j
                             THEN before[k].taken + 1
                             ELSE before[k].taken]_vars

\* an item has gone to the factory of a bundle whose behaviour and burner refused it,
\* and an item has been refused by all three
C24_Witness ==
    /\ bundle.call = Some([op |-> "input", arg |-> "CoalOre", ret |-> "Err"])
    /\ bundle.burner # None /\ bundle.factory # None
    /\ Unwrap(bundle.factory).taken = 1
    /\ bundle.dynamic.taken = 0 /\ Unwrap(bundle.burner).taken = 0

\* the inventory of the first of behaviour, burner and factory that has one
FirstInventory(b, is_input) ==
    IF b.dynamic.has_inventory
    THEN Some([owner |-> "dynamic", is_input |-> is_input, items |-> b.dynamic.taken])
    ELSE IF b.burner # None
         THEN Some([owner |-> "burner", is_input |-> TRUE, items |-> Unwrap(b.burner).taken])
         ELSE IF b.factory # None
              THEN Some([owner |-> "factory", is_input |-> is_input,
                         items |-> IF is_input THEN Unwrap(b.factory).taken ELSE 0])
              ELSE None

\* C25 (inventory precedence chain): StructureBundle::inventory returns the
\* behaviour's inventory when it has one, otherwise the burner component's inventory,
\* otherwise the factory component's inventory, and none only when all three have none.
C25_InventoryChain ==
    (bundle.call # None /\ Unwrap(bundle.call).op = "inventory") =>
        Unwrap(bundle.call).ret = FirstInventory(bundle, Unwrap(bundle.call).arg)

-----------------------------------------------------------------------------
(* Properties of one flow step *)

\* box b was simulated in this step and reached the flow step of its link to the
\* other box
Stepped(b) == Simulate(b) /\ flowlog'.steps # <<>>

ValvesAllow(b, flow) ==
    LET self_box == boxes[b]
        neighbor == boxes[Other(b)]
    IN IF flow < 0
       THEN /\ self_box.output_enable
            /\ neighbor.input_enable
            /\ neighbor.filter # None => neighbor.filter = self_box.type_
       ELSE /\ self_box.input_enable
            /\ neighbor.output_enable
            /\ self_box.filter # None => self_box.filter = neighbor.type_

\* C27 (valve rule, no partial transfer): in a flow step that the mixing rule does
\* not skip, a flow to the neighbor requires self's output valve, the neighbor's
\* input valve and, if the neighbor has a filter, that it is self's kind; a flow from
\* the neighbor requires self's input valve, the neighbor's output valve and, if self
\* has a filter, that it is the neighbor's kind. When the requirement is violated
\* both boxes are exactly unchanged; otherwise self gains and the neighbor loses a
\* tenth of (neighbor's amount - self's amount).
C27_ValveRule ==
    [][\A b \in FluidBoxIds :
           (Stepped(b) /\ flowlog'.steps[1].outcome # "wont_mix") =>
               LET pressure == boxes[Other(b)].amount - boxes[b].amount
                   gain == boxes'[b].amount - boxes[b].amount
               IN IF ValvesAllow(b, pressure)
                  THEN /\ 10 * gain = pressure
                       /\ boxes'[Other(b)].amount = boxes[Other(b)].amount - gain
                  ELSE boxes' = boxes]_vars

\* box flowlog.self, with its input valve open and no filter, was simulated against
\* a fuller neighbor whose output valve is closed, and the step was abandoned
C27_Witness ==
    /\ LastStep("blocked")
    /\ flowlog.steps[1].flow > 0
    /\ boxes[flowlog.self].input_enable
    /\ boxes[flowlog.self].filter = None
    /\ ~boxes[Other(flowlog.self)].output_enable
    /\ boxes = boxes0

\* every box that holds an amount has its kind set
KindSet(bs) == \A b \in FluidBoxIds : bs[b].amount > 0 => bs[b].type_ # None

\* C28 (kind propagation): when a flow step transfers, the receiving box's kind
\* becomes the giving box's kind and the giver's kind is unchanged (in a step between
\* equal amounts, with flow 0, self counts as the receiver); and if every box with
\* amount > 0 has its kind set before a simulate call, so it is after the call.
C28_KindPropagation ==
    [][/\ \A b \in FluidBoxIds :
              (Stepped(b) /\ flowlog'.steps[1].outcome = "moved") =>
                  LET giver == IF boxes[Other(b)].amount < boxes[b].amount
                               THEN b ELSE Other(b)
                      receiver == Other(giver)
                  IN /\ boxes'[receiver].type_ = boxes[giver].type_
                     /\ boxes'[giver].type_ = boxes[giver].type_
       /\ KindSet(boxes) => KindSet(boxes')]_vars

\* a box that started empty with no kind has received from the other box and now
\* has that box's kind
C28_Witness ==
    \E r \in FluidBoxIds :
        /\ boxes0[r].type_ = None
        /\ LastStep("moved")
        /\ boxes[r].amount > 0
        /\ boxes[r].type_ = boxes0[Other(r)].type_
        /\ boxes[Other(r)].type_ = boxes0[Other(r)].type_

\* C29 (capacity invariant): from boxes that all hold between 0 and their
\* max_amount, every box still holds between 0 and its max_amount after any sequence
\* of simulate calls, whatever the capacities of linked boxes and however many links
\* a box receives over.
C29_WithinCapacity ==
    \A b \in DOMAIN boxes : 0 <= boxes[b].amount /\ boxes[b].amount <= boxes[b].max_amount

\* the link indices that may be recorded for a simulate call with flow steps log:
\* those of the transfers with the largest absolute flow among the transfers whose
\* absolute flow is above the display threshold, or the sentinel when there is none
LargestFlowIdx(log) ==
    LET shown == {k \in 1..Len(log) : /\ log[k].outcome = "moved"
                                      /\ Abs(log[k].flow) > Unit \div 1000}
    IN IF shown = {} THEN {0 - 1}
       ELSE {log[k].i : k \in {k \in shown :
                                  \A j \in shown : Abs(log[j].flow) <= Abs(log[k].flow)}}

\* C30 (largest-flow tracking): at the end of FluidBox::simulate the recorded link
\* index is the index of the link whose transfer had the largest absolute flow among
\* the links with a flow above the display threshold, whatever the signs and the
\* order of the flows, and it is the sentinel when no flow exceeded the threshold.
C30_LargestFlow ==
    [][\A b \in StarIds :
           Simulate(b) =>
               simulate(boxes, b).biggest.idx \in LargestFlowIdx(flowlog'.steps)]_vars

-----------------------------------------------------------------------------
(* Properties of loading, placing and rotating *)

\* the document serialize_game writes for the present game, with another version
Versioned(v) == [serialize_game(World) EXCEPT !.version = v]

\* C31 (version gate): deserialize_game on a document whose "version" is absent or
\* lower than SAVE_VERSION returns an error and leaves the structures, the drop
\* items, the wires, the networks, the player and sim_time as before the call.
C31_VersionGate ==
    [][/\ \A d \in {"old_version", "no_version"} :
              SaveLoad(d) =>
                  /\ result'.err # None
                  /\ UNCHANGED <<structures, drop_items, power_wires, power_networks,
                                 player, sim_time>>
       /\ \A v \in {None} \cup {Some(n) : n \in 0..(SAVE_VERSION - 1)} :
              LET r == deserialize_game(World, Versioned(v))
              IN r.err # None /\ r.w = World]_vars

\* a game with a live structure, a wire and a drop item has just refused a document
\* for its version
C31_Witness ==
    /\ result.op = "load"
    /\ result.err = Some("Save data version is too old. Please start a new game.")
    /\ \E i \in 1..Len(structures) : structures[i].dynamic # None
    /\ power_wires # <<>>
    /\ \E k \in 1..Len(drop_items) : drop_items[k].item # None

\* the reasons new_object has to refuse an item at the tile
Refusals(pos) ==
    LET centre == DropItem_new("CoalOre", pos.x, pos.y)
    IN [OutOfMap |-> \/ pos \notin BoardTiles
                     \/ ~(0 <= pos.x /\ pos.x < Unwrap(Bounds).width
                            /\ 0 <= pos.y /\ pos.y < Unwrap(Bounds).height),
        OnWater |-> pos \in WaterTiles,
        BlockedByStructure |->
            \E i \in 1..Len(structures) :
                /\ structures[i].dynamic # None
                /\ Unwrap(structures[i].dynamic).position = pos
                /\ ~movable(Unwrap(structures[i].dynamic).kind),
        BlockedByItem |->
            \E k \in 1..Len(drop_items) :
                /\ drop_items[k].item # None
                /\ Abs(Unwrap(drop_items[k].item).x - centre.x) < DROP_ITEM_SIZE_I
                /\ Abs(Unwrap(drop_items[k].item).y - centre.y) < DROP_ITEM_SIZE_I]

\* the item slot a new item goes to: the first empty one, or a new one at the end
FirstFreeItemSlot ==
    LET empty == {k \in 1..Len(drop_items) : drop_items[k].item = None}
    IN IF empty = {} THEN Len(drop_items) + 1
       ELSE CHOOSE k \in empty : \A j \in empty : k <= j

-----------------------------------------------------------------------------
(* Properties of the links of the fluid boxes *)

\* the connections of the list that start at the entity
StartingAt(entity) == SelectSeq(connections, LAMBDA c : c[1] = entity)

\* C33 (fluid connections between orthogonal neighbors only): the list returned by
\* list_connections holds no pair of an entity with itself and no pair of entities
\* that are not on orthogonally adjacent tiles, and at most 4 pairs start at any
\* entity.
C33_OrthogonalConnections ==
    /\ \A k \in 1..Len(connections) :
           /\ connections[k][1] # connections[k][2]
           /\ neighbor_index(ecs[connections[k][1]].position,
                             ecs[connections[k][2]].position) # None
    /\ \A e \in DOMAIN ecs : Len(StartingAt(e)) <= 4

\* C39 (update_connections fills distinct slots): after update_connections on the
\* box of an entity, with at most 4 connections starting at the entity the call
\* returned Ok and slot i of connect_to holds the target of the i-th of them; with
\* more than 4 it returned the error "More than 4 connections in a fluid box!".
C39_DistinctSlots ==
    result.op = "update_connections" =>
        LET mine == StartingAt(result.entity)
        IN IF Len(mine) > 4
           THEN result.err = Some("More than 4 connections in a fluid box!")
           ELSE /\ result.err = None
                /\ \A i \in 1..Len(mine) : fluid_links[result.entity][i] = Some(mine[i][2])

-----------------------------------------------------------------------------
(* Properties of the structures on the board and of the player's inventory *)

\* C34 (one structure per tile): after any placement or harvest no tile is in the
\* bounding box of two live structures, and after a placement the only live
\* structure on the tile of the new structure is the new one, whatever stood there.
C34_OneStructurePerTile ==
    [][/\ \A tile \in ReachTiles : Cardinality(occupants(structures', tile)) <= 1
       /\ \A kind \in Kinds, cursor \in ReachTiles :
              (player[kind] >= 1 /\ Place(kind, cursor)) =>
                  /\ Cardinality(occupants(structures', cursor)) = 1
                  /\ \A i \in occupants(structures', cursor) :
                         /\ Unwrap(structures'[i + 1].dynamic).kind = kind
                         /\ HandleOf(structures', i) \notin
                                {HandleOf(structures, j) : j \in occupants(structures, cursor)}]_vars

\* structures stand on all three tiles, one of them in a slot that an earlier
\* structure has left
C34_Witness ==
    /\ harvested # {}
    /\ \A tile \in ReachTiles : occupants(structures, tile) # {}
    /\ \E i \in 1..Len(structures) : structures[i].gen >= 1

\* the number of live structures of the kind
LiveOfKind(strs, kind) ==
    Cardinality({i \in 1..Len(strs) : /\ strs[i].dynamic # None
                                      /\ Unwrap(strs[i].dynamic).kind = kind})

\* the number of live structures of the kind that stand on the tile
KindAt(kind, tile) ==
    Cardinality({i \in occupants(structures, tile) :
                    Unwrap(structures[i + 1].dynamic).kind = kind})

\* C35 (structure-item conservation): a placement happens only when the player holds
\* at least one item of the placed kind and removes exactly one of them, a harvest
\* (that of the occupant of the tile built on included) adds exactly one item of the
\* kind of each structure it takes out; so in every step, for every kind, the number
\* of live structures of the kind plus the player's count of it stays the same, and
\* the player's count is never below 0.
C35_ItemConservation ==
    [][/\ \A k \in Kinds :
              /\ LiveOfKind(structures', k) + player'[k] = LiveOfKind(structures, k) + player[k]
              /\ player'[k] >= 0
       /\ \A kind \in Kinds, cursor \in ReachTiles :
              Place(kind, cursor) =>
                  /\ player[kind] >= 1
                  /\ \A k \in Kinds :
                         player'[k] = player[k] + KindAt(k, cursor) - (IF k = kind THEN 1 ELSE 0)
       /\ \A cursor \in ReachTiles :
              Harvest(cursor) => \A k \in Kinds : player'[k] = player[k] + KindAt(k, cursor)]_vars

\* the player has placed everything held, after having taken one structure back
C35_Witness ==
    /\ harvested # {}
    /\ \A k \in Kinds : player[k] = 0
    /\ \E i \in 1..Len(structures) : structures[i].dynamic # None

-----------------------------------------------------------------------------
(* Properties of rotate *)

\* the slots (0-based) whose structure has another rotation after the step
Rotated ==
    {i \in 0..(Len(structures) - 1) :
        /\ structures[i + 1].dynamic # None
        /\ structures'[i + 1].dynamic # None
        /\ Unwrap(structures'[i + 1].dynamic).rotation
               # Unwrap(structures[i + 1].dynamic).rotation}

\* C36 (rotate targets the structure under the cursor): with no item selected,
\* rotate turns the live structure on the cursor tile, if it carries a rotation, to
\* the next rotation and changes the rotation of no other structure, also when
\* empty slots precede that structure in the arena.
C36_RotateUnderCursor ==
    [][\A tile \in ReachTiles :
           Rotate(Some(tile)) =>
               /\ Rotated \subseteq occupants(structures, tile)
               /\ \A i \in occupants(structures, tile) :
                      Unwrap(structures[i + 1].dynamic).rotation # None => i \in Rotated]_vars

\* C37 (rotate reports what it did): with no item selected, rotate returns a success
\* whenever it rotated the structure under the cursor, and returns NotFound only
\* when no structure stands on the cursor tile (or there is no cursor) and nothing
\* was rotated.
C37_RotateReports ==
    [][\A cursor \in {None} \cup {Some(t) : t \in ReachTiles} :
           Rotate(cursor) =>
               /\ Rotated # {} => result'.ret = "Ok"
               /\ result'.ret = "NotFound" =>
                      /\ Rotated = {}
                      /\ cursor # None => occupants(structures, Unwrap(cursor)) = {}]_vars

-----------------------------------------------------------------------------
(* Properties of ElectPole::power_outlet *)

RECURSIVE SumSupplied(_, _)
\* what the calls k.. of the log supplied in all
SumSupplied(log, k) ==
    IF k > Len(log) THEN 0 ELSE Unwrap(log[k].ret) + SumSupplied(log, k + 1)

\* the stored power after call k of the log
PowerAfter(k) == IF k = Len(outlets) THEN pole_power ELSE outlets[k + 1].before

\* C38 (ElectPole::power_outlet): every call with demand >= 0 returns Some(supplied)
\* with supplied = min(demand, stored power) and lowers the stored power by exactly
\* supplied; so a stored power that is not negative never becomes negative, no call
\* supplies more than was demanded or more than the pole holds, and all calls
\* together supply no more than the pole held at the start.
C38_PowerOutlet ==
    /\ \A k \in 1..Len(outlets) :
           LET c == outlets[k] IN
           /\ c.ret # None
           /\ Unwrap(c.ret) = IF c.demand <= c.before THEN c.demand ELSE c.before
           /\ PowerAfter(k) = c.before - Unwrap(c.ret)
           /\ Unwrap(c.ret) <= c.demand
           /\ Unwrap(c.ret) <= c.before
           /\ c.before >= 0 => PowerAfter(k) >= 0
    /\ outlets # <<>> => SumSupplied(outlets, 1) <= outlets[1].before

\* two calls: one served in full from a pole that holds more, one cut to what is left
C38_Witness ==
    /\ Len(outlets) >= 2
    /\ \E k \in 1..Len(outlets) :
           /\ 0 < outlets[k].demand
           /\ outlets[k].demand < outlets[k].before
           /\ outlets[k].ret = Some(outlets[k].demand)
    /\ \E k \in 1..Len(outlets) :
           /\ 0 < outlets[k].before
           /\ outlets[k].before < outlets[k].demand
           /\ outlets[k].ret = Some(outlets[k].before)
           /\ PowerAfter(k) = 0

====
